---- MODULE Spec2Model ----
(***************************************************************************)
(* Event-driven transactional core of the e-commerce platform:             *)
(*   - InventoryReservationService (shared/inventory_reservation.py)       *)
(*   - the inventory service's HTTP reserve endpoint and its consumer      *)
(*   - the order service's create_order / cancel_order                     *)
(*   - the transactional outbox, the reliable producer and the bus         *)
(*   - the reliable (idempotent, retrying) consumer                        *)
(* Each subsystem has its own specification over the shared variables.     *)
(***************************************************************************)
EXTENDS Integers, Sequences, FiniteSets, TLC

\* ------------------------------------------------------------------ bounds
MaxStock == 2
MaxQty == 2
MaxPubCrashes == 1
MaxConsCrashes == 1
MaxSagaBusFaults == 1
MaxSagaCrashes == 1
MaxRedeliveries == 1
MaxPayBusFaults == 1
MaxPayCrashes == 1
\* ids beyond the limit of the in-memory idempotency set that get marked
MaxNewIds == 1
\* process_event calls made for one event id (deliveries of the event)
MaxDeliveries == 3
\* idempotency keys that reach their TTL
MaxKeyExpiries == 1
\* incidents the oversell detector is watched for
MaxIncidents == 2

Skus == {"p1", "p2"}
\* Concurrent reserve_stock calls and concurrent HTTP requests.
Calls == {1, 2}
Reqs == {1, 2, 3}
NoKey == "none"
IdemKeys == {"k1"}
NoRes == 0

VARIABLES
    inventory,            \* inventory table: committed rows, per sku
    rs,                   \* reserve_stock calls in flight, per call
    redis_reservations,   \* Redis: reservation:{id} entries and order sets
    redis_idempotency,    \* Redis: idempotency:{key} -> reservation_id
    svc_last              \* the last confirm / release call: <<operation, return value,
                          \* reservation_id>>

VARIABLES
    products,             \* products table of the inventory service, per id
    ep                    \* HTTP requests to the inventory service in flight

VARIABLES
    outbox,               \* outbox_events table: committed rows in created_at order
    pub,                  \* the OutboxPublisher worker: position in _publish_batch
    bus,                  \* the target topic: envelopes in the order the bus took them
    dlq,                  \* the dead-letter topic
    next_uuid,            \* uuid4(): the next value never handed out before
    faults                \* failures the environment may still inject

VARIABLES
    offsets,              \* the consumer group's committed offset on the topic
    cons,                 \* the group member that owns the partition, inside consume()
    processed,            \* IdempotencyStore._processed of every member
    redis_processed,      \* processed:<event_id> keys in Redis
    use_redis,            \* whether the consumers were built with a redis_client
    effects,              \* how often the handler's side effect happened, per event_id
    dlq_log,              \* events the consumer's _send_to_dlq logged
    cfaults               \* handler failures and consumer crashes still to inject

VARIABLES
    orders,               \* order-service tables orders / order_items, committed
    oreq,                 \* per order: where its create_order / cancel_order request is
    orders_topic,         \* topic "orders"
    inventory_topic,      \* topic "inventory"
    inv_position,         \* inventory-service consumer: messages of "orders" consumed
    sfaults               \* failures still to inject into the services

VARIABLES
    payments_topic,       \* topic "payments"
    positions,            \* messages consumed by the order service (topics "inventory"
                          \* and "payments") and by the payment service ("payments")
    charges,              \* successful charges of the payment gateway, per order
    redeliveries          \* re-deliveries the bus may still make

VARIABLES
    overdue,              \* reservations whose expires_at has passed
    worker_pc             \* position of the ReservationExpiryWorker loop

VARIABLES
    payments,             \* payment-service table payments, committed rows by id
    preq,                 \* per POST /payments request: its position and its session row
    rreq,                 \* the refund request: its position and its payment
    pfaults               \* failures still to inject into the payment service

VARIABLES
    admin                 \* the PUT /products/{id}/stock request: its position, input and answer

VARIABLES
    idem_keys,            \* Redis keys idempotency:{service}:{event_id} that exist
    duplicates_total,     \* KAFKA_DUPLICATE_MESSAGES_TOTAL of the service
    tcalls,               \* the process_event calls: position, event_id, reply, outcome
    answers,              \* per event_id: False answers since its key was set, True answers
    completed,            \* event ids whose handler has returned
    key_expiries,         \* idempotency keys that may still reach their TTL
    incidents             \* OversellDetector.incidents

invVars == <<inventory, rs, redis_reservations, redis_idempotency, svc_last>>
epVars == <<products, ep>>

obVars == <<outbox, pub, bus, dlq, next_uuid, faults>>

consVars == <<offsets, cons, processed, redis_processed, use_redis, effects, dlq_log,
              cfaults>>

sagaVars == <<orders, oreq, orders_topic, inventory_topic, inv_position, sfaults>>

flowVars == <<payments_topic, positions, charges, redeliveries>>

expVars == <<overdue, worker_pc>>

payVars == <<payments, preq, rreq, pfaults>>

adminVars == <<admin>>

trkVars == <<idem_keys, duplicates_total, tcalls, answers, completed, key_expiries, incidents>>

vars == <<invVars, epVars, obVars, consVars, sagaVars, flowVars, expVars, payVars, adminVars, trkVars>>

\* What the actions of one subsystem leave alone.
InvFrame == <<epVars, obVars, consVars, sagaVars, flowVars, expVars, payVars, adminVars, trkVars>>
EpFrame == <<invVars, obVars, consVars, sagaVars, flowVars, expVars, payVars, adminVars, trkVars>>
ObFrame == <<invVars, epVars, consVars, sagaVars, flowVars, expVars, payVars, adminVars, trkVars>>
ConsFrame == <<invVars, epVars, obVars, sagaVars, flowVars, expVars, payVars, adminVars, trkVars>>
SagaFrame == <<invVars, epVars, obVars, consVars, flowVars, expVars, payVars, adminVars, trkVars>>
FlowFrame == <<invVars, epVars, obVars, consVars, expVars, payVars, adminVars, trkVars>>
ExpFrame == <<invVars, epVars, obVars, consVars, sagaVars, flowVars, payVars, adminVars, trkVars>>
PayFrame == <<invVars, epVars, obVars, consVars, sagaVars, flowVars, expVars, adminVars, trkVars>>
\* ... by the steps that touch two subsystems.
InvExpFrame == <<epVars, obVars, consVars, sagaVars, flowVars, payVars, adminVars, trkVars>>
PayFlowFrame == <<invVars, epVars, obVars, consVars, sagaVars, expVars, adminVars, trkVars>>
AdminFrame == <<invVars, epVars, obVars, consVars, sagaVars, flowVars, expVars, payVars, trkVars>>
TrkFrame == <<invVars, epVars, obVars, consVars, sagaVars, flowVars, expVars, payVars, adminVars>>

\* =====================================================================
\* InventoryReservationService  (services/shared/inventory_reservation.py)
\* =====================================================================

\* Line items a reserve_stock call may carry: one or two (sku, quantity).
Item == [sku_id : Skus, quantity : 1..MaxQty]
ItemLists == {<<a>> : a \in Item} \cup {<<a, b>> : a \in Item, b \in Item}

\* The physical count of a row of the inventory table, whose columns are
\* available_quantity, reserved_quantity and sold_quantity.
stock(row) == row.available_quantity + row.reserved_quantity

IdleCall ==
    [pc |-> "idle", items |-> <<>>, idempotency_key |-> NoKey, i |-> 1,
     reservations |-> <<>>, failed_items |-> <<>>, locks |-> {},
     tx |-> [s \in Skus |-> [available_quantity |-> 0, reserved_quantity |-> 0,
                             sold_quantity |-> 0]],
     aborted |-> FALSE, result |-> "none"]

\* A call that has returned: its locals are gone, the session is closed.
Returned(result) == [IdleCall EXCEPT !.pc = "done", !.result = result]

InitInv ==
    /\ inventory = [s \in Skus |-> [available_quantity |-> MaxStock,
                                     reserved_quantity |-> 0, sold_quantity |-> 0]]
    /\ rs = [c \in Calls |-> IdleCall]
    /\ redis_reservations = {}
    /\ redis_idempotency = [k \in IdemKeys |-> NoRes]
    /\ svc_last = <<"none", FALSE, 0>>

\* The row version a session sees: its own uncommitted write, else the
\* committed row (READ COMMITTED).
Visible(c, s) == IF s \in rs[c].locks THEN rs[c].tx[s] ELSE inventory[s]

\* A row written by another open transaction is locked until that
\* transaction commits or rolls back.
LockedByOther(c, s) == \E d \in Calls \ {c} : s \in rs[d].locks

\* _get_existing_reservation: redis.get("idempotency:{key}")
get_existing_reservation(key) == redis_idempotency[key]

\* reserve_stock is called (items and key are its inputs) and runs to its
\* first database statement: the idempotency check of lines 86-91.
reserve_stock_start(c) ==
    /\ rs[c].pc = "idle"
    /\ \E items \in ItemLists, key \in IdemKeys \cup {NoKey} :
          IF key # NoKey /\ get_existing_reservation(key) # NoRes
          THEN rs' = [rs EXCEPT ![c] = Returned("existing")]
          ELSE rs' = [rs EXCEPT ![c] = [IdleCall EXCEPT !.pc = "loop", !.items = items,
                                                        !.idempotency_key = key]]
    /\ UNCHANGED <<inventory, redis_reservations, redis_idempotency, svc_last>>
    /\ UNCHANGED InvFrame

\* (mutant) the UPDATE without its stock predicate.
atomic_reserve_where_unguarded(row, quantity) == TRUE

\* The WHERE clause of the conditional UPDATE of _atomic_reserve.
atomic_reserve_where(row, quantity) == row.available_quantity >= quantity

\* (mutant) the SET clause without its decrement of available_quantity.
atomic_reserve_set_keeping_available(row, quantity) ==
    [row EXCEPT !.reserved_quantity = @ + quantity]

\* The SET clause of the conditional UPDATE of _atomic_reserve.
atomic_reserve_set(row, quantity) ==
    [row EXCEPT !.available_quantity = @ - quantity,
                !.reserved_quantity = @ + quantity]

\* (mutant) a reservation born Confirmed.
StockReservation_confirmed(c, s, q) ==
    [reservation_id |-> <<c, s>>, order_id |-> c, sku_id |-> s, quantity |-> q,
     status |-> "confirmed"]

\* The StockReservation reserve_stock builds after a successful
\* _atomic_reserve: id "{reservation_id}:{sku_id}", status PENDING.
StockReservation(c, s, q) ==
    [reservation_id |-> <<c, s>>, order_id |-> c, sku_id |-> s, quantity |-> q,
     status |-> "pending"]

\* _store_reservation: redis.setex("reservation:{id}", ...) replaces an
\* entry under the same id.
store_reservation(store, reservation) ==
    {r \in store : r.reservation_id # reservation.reservation_id} \cup {reservation}

\* After the loop: rollback when an item failed, commit otherwise.
AfterItem(c, failed) ==
    IF rs[c].i < Len(rs[c].items) THEN "loop"
    ELSE IF failed # <<>> THEN "rollback" ELSE "commit"

\* One iteration of the loop of reserve_stock: _atomic_reserve on the
\* item, then _store_reservation (Redis) when it succeeded.
atomic_reserve(c) ==
    /\ rs[c].pc = "loop"
    /\ LET item == rs[c].items[rs[c].i]
           s == item.sku_id
           q == item.quantity
           row == Visible(c, s)
           fail == Append(rs[c].failed_items, item)
       IN  /\ ~LockedByOther(c, s)
           /\ IF ~rs[c].aborted /\ atomic_reserve_where(row, q)
              THEN /\ rs' = [rs EXCEPT
                              ![c].tx[s] = atomic_reserve_set(row, q),
                              ![c].locks = @ \cup {s},
                              ![c].reservations = Append(@, item),
                              ![c].i = @ + 1,
                              ![c].pc = AfterItem(c, rs[c].failed_items)]
                   /\ redis_reservations' =
                        store_reservation(redis_reservations, StockReservation(c, s, q))
              ELSE /\ rs' = [rs EXCEPT ![c].failed_items = fail,
                                       ![c].i = @ + 1,
                                       ![c].pc = AfterItem(c, fail)]
                   /\ UNCHANGED redis_reservations
    /\ UNCHANGED <<inventory, redis_idempotency, svc_last>>
    /\ UNCHANGED InvFrame

\* session.execute raises while the row is held by another transaction
\* (deadlock victim, lock timeout): _atomic_reserve catches it and returns
\* False; the database transaction is aborted from then on.
atomic_reserve_raises(c) ==
    /\ rs[c].pc = "loop"
    /\ LET item == rs[c].items[rs[c].i]
           fail == Append(rs[c].failed_items, item)
       IN  /\ LockedByOther(c, item.sku_id)
           /\ rs' = [rs EXCEPT ![c].failed_items = fail,
                               ![c].aborted = TRUE,
                               ![c].i = @ + 1,
                               ![c].pc = AfterItem(c, fail)]
    /\ UNCHANGED <<inventory, redis_reservations, redis_idempotency, svc_last>>
    /\ UNCHANGED InvFrame

\* (mutant) the reversing UPDATE without its decrement of reserved_quantity.
rollback_set_keeping_reserved(row, quantity) ==
    [row EXCEPT !.available_quantity = @ + quantity]

\* The UPDATE of _rollback_reservations, for one reservation.
rollback_set(row, quantity) ==
    [row EXCEPT !.available_quantity = @ + quantity,
                !.reserved_quantity = @ - quantity]

RECURSIVE rollback_rows(_, _)
rollback_rows(tx, reservations) ==
    IF reservations = <<>> THEN tx
    ELSE LET r == Head(reservations)
         IN  rollback_rows([tx EXCEPT ![r.sku_id] = rollback_set(@, r.quantity)],
                           Tail(reservations))

\* _rollback_reservations: reverse every successful atomic reserve inside
\* the transaction.  In an aborted transaction the first statement raises,
\* the exception leaves reserve_stock and the session is closed.
rollback_reservations(c) ==
    /\ rs[c].pc = "rollback"
    /\ IF rs[c].aborted /\ rs[c].reservations # <<>>
       THEN rs' = [rs EXCEPT ![c] = Returned("error")]
       ELSE rs' = [rs EXCEPT ![c].pc = "dbrollback",
                             ![c].tx = rollback_rows(@, rs[c].reservations)]
    /\ UNCHANGED <<inventory, redis_reservations, redis_idempotency, svc_last>>
    /\ UNCHANGED InvFrame

\* session.rollback(): every write of the transaction is discarded; the
\* call returns success=False with the failed items.
session_rollback(c) ==
    /\ rs[c].pc = "dbrollback"
    /\ rs' = [rs EXCEPT ![c] = Returned("failure")]
    /\ UNCHANGED <<inventory, redis_reservations, redis_idempotency, svc_last>>
    /\ UNCHANGED InvFrame

\* session.commit(): the transaction's row versions become the committed rows.
session_commit(c) ==
    /\ rs[c].pc = "commit"
    /\ inventory' = [s \in Skus |-> Visible(c, s)]
    /\ rs' = [rs EXCEPT ![c] = IF rs[c].idempotency_key # NoKey
                                THEN [@ EXCEPT !.locks = {}, !.tx = IdleCall.tx,
                                               !.pc = "storeidem"]
                                ELSE Returned("success")]
    /\ UNCHANGED <<redis_reservations, redis_idempotency, svc_last>>
    /\ UNCHANGED InvFrame

\* _store_idempotency, then the success result.
store_idempotency(c) ==
    /\ rs[c].pc = "storeidem"
    /\ redis_idempotency' = [redis_idempotency EXCEPT ![rs[c].idempotency_key] = c]
    /\ rs' = [rs EXCEPT ![c] = Returned("success")]
    /\ UNCHANGED <<inventory, redis_reservations, svc_last>>
    /\ UNCHANGED InvFrame

\* _get_reservations: "In production, query Redis or DB"; returns [].
get_reservations(reservation_id) == <<>>

\* _update_reservation_status: its body is `pass`.
update_reservation_status(store, reservation_id, status) == store

\* The UPDATE of confirm_reservation, for one reservation.
confirm_set(row, quantity) ==
    [row EXCEPT !.reserved_quantity = @ - quantity,
                !.sold_quantity = @ + quantity]

\* The UPDATE of release_reservation, for one reservation.
release_set(row, quantity) ==
    [row EXCEPT !.reserved_quantity = @ - quantity,
                !.available_quantity = @ + quantity]

RECURSIVE confirm_rows(_, _)
confirm_rows(inv, reservations) ==
    IF reservations = <<>> THEN inv
    ELSE LET r == Head(reservations)
         IN  IF r.status # "pending" THEN confirm_rows(inv, Tail(reservations))
             ELSE confirm_rows([inv EXCEPT ![r.sku_id] = confirm_set(@, r.quantity)],
                               Tail(reservations))

RECURSIVE release_rows(_, _)
release_rows(inv, reservations) ==
    IF reservations = <<>> THEN inv
    ELSE LET r == Head(reservations)
         IN  IF r.status # "pending" THEN release_rows(inv, Tail(reservations))
             ELSE release_rows([inv EXCEPT ![r.sku_id] = release_set(@, r.quantity)],
                               Tail(reservations))

\* Reservation ids handed out so far (the uuid of each call).
KnownReservationIds == {c \in Calls : rs[c].pc # "idle"}

\* confirm_reservation(reservation_id)
confirm_reservation(rid) ==
    /\ rid \in KnownReservationIds
    /\ LET reservations == get_reservations(rid)
       IN  IF reservations = <<>>
           THEN /\ svc_last' = <<"confirm", FALSE, rid>>
                /\ UNCHANGED inventory
           ELSE /\ inventory' = confirm_rows(inventory, reservations)
                /\ svc_last' = <<"confirm", TRUE, rid>>
    /\ UNCHANGED <<rs, redis_reservations, redis_idempotency>>
    /\ UNCHANGED InvFrame

\* release_reservation(reservation_id, reason), reason in {cancelled, expired}
release_reservation(rid, reason) ==
    /\ rid \in KnownReservationIds
    /\ LET reservations == get_reservations(rid)
       IN  IF reservations = <<>>
           THEN /\ svc_last' = <<reason, FALSE, rid>>
                /\ UNCHANGED inventory
           ELSE /\ inventory' = release_rows(inventory, reservations)
                /\ svc_last' = <<reason, TRUE, rid>>
    /\ UNCHANGED <<rs, redis_reservations, redis_idempotency>>
    /\ UNCHANGED InvFrame

\* ---------------------------------------------------------------------
\* Reservation expiry (ReservationExpiryWorker, RESERVATION_TTL_SECONDS)
\* ---------------------------------------------------------------------

InitExp ==
    /\ overdue = {}
    /\ worker_pc = "sweep"

\* RESERVATION_TTL_SECONDS after its creation a reservation is overdue
\* (expires_at = now + TTL); the Redis key written by setex with the same
\* TTL is dropped by Redis at that moment.
ttl_passes ==
    /\ \E r \in redis_reservations :
          /\ redis_reservations' = redis_reservations \ {r}
          /\ overdue' = overdue \cup {r}
    /\ UNCHANGED <<inventory, rs, redis_idempotency, svc_last, worker_pc>>
    /\ UNCHANGED InvExpFrame

\* ReservationExpiryWorker.start, one round of the loop:
\* _process_expired_reservations() runs; its body is `pass`.
process_expired_reservations ==
    /\ worker_pc = "sweep"
    /\ worker_pc' = "sleep"
    /\ UNCHANGED overdue
    /\ UNCHANGED ExpFrame

\* ReservationExpiryWorker.start: asyncio.sleep(interval_seconds) is over.
worker_sleep ==
    /\ worker_pc = "sleep"
    /\ worker_pc' = "sweep"
    /\ UNCHANGED overdue
    /\ UNCHANGED ExpFrame

NextInv ==
    \/ \E c \in Calls : reserve_stock_start(c)
    \/ \E c \in Calls : atomic_reserve(c)
    \/ \E c \in Calls : atomic_reserve_raises(c)
    \/ \E c \in Calls : rollback_reservations(c)
    \/ \E c \in Calls : session_rollback(c)
    \/ \E c \in Calls : session_commit(c)
    \/ \E c \in Calls : store_idempotency(c)
    \/ \E rid \in Calls : confirm_reservation(rid)
    \/ \E rid \in Calls, reason \in {"cancelled", "expired"} :
          release_reservation(rid, reason)

\* =====================================================================
\* Inventory service HTTP surface  (services/inventory-service/main.py)
\* =====================================================================

ProductIds == Skus \cup {"unknown"}

IdleReq == [pc |-> "idle", product_id |-> "unknown", quantity |-> 0,
            reserved_quantity |-> 0, status |-> 0]

InitEp ==
    /\ products = [s \in Skus |-> [stock_quantity |-> MaxStock,
                                    reserved_quantity |-> 0]]
    /\ ep = [r \in Reqs |-> IdleReq]

\* Product.available_quantity (a property, never stored)
available_quantity(product) == product.stock_quantity - product.reserved_quantity

\* POST /api/v1/products/{product_id}/reserve?quantity=... arrives.
endpoint_reserve_request(r) ==
    /\ ep[r].pc = "idle"
    /\ \E pid \in ProductIds, q \in 1..MaxQty :
          ep' = [ep EXCEPT ![r] = [IdleReq EXCEPT !.pc = "select", !.product_id = pid,
                                                  !.quantity = q]]
    /\ UNCHANGED products
    /\ UNCHANGED EpFrame

\* The value the handler assigns to product.reserved_quantity in memory.
endpoint_reserve_value(product, quantity) == product.reserved_quantity + quantity

\* reserve_stock, from the SELECT to the suspension at `await db.commit()`:
\* 404 for an unknown product, 400 when available < quantity, otherwise
\* product.reserved_quantity += quantity on the loaded object.
endpoint_reserve_select(r) ==
    /\ ep[r].pc = "select"
    /\ IF ep[r].product_id \notin Skus
       THEN ep' = [ep EXCEPT ![r].pc = "done", ![r].status = 404]
       ELSE LET product == products[ep[r].product_id]
            IN  IF available_quantity(product) < ep[r].quantity
                THEN ep' = [ep EXCEPT ![r].pc = "done", ![r].status = 400]
                ELSE ep' = [ep EXCEPT ![r].pc = "commit",
                              ![r].reserved_quantity =
                                  endpoint_reserve_value(product, ep[r].quantity)]
    /\ UNCHANGED products
    /\ UNCHANGED EpFrame

\* db.commit(): the unit of work flushes
\*   UPDATE products SET reserved_quantity = :value WHERE id = :id
\* with the value computed from the row as it was loaded, and commits.
endpoint_reserve_commit(r) ==
    /\ ep[r].pc = "commit"
    /\ products' = [products EXCEPT ![ep[r].product_id].reserved_quantity =
                                        ep[r].reserved_quantity]
    /\ ep' = [ep EXCEPT ![r].pc = "done", ![r].status = 200]
    /\ UNCHANGED EpFrame

\* StockUpdate: quantity and operation (set, add, subtract).
StockQuantities == 0..MaxQty
Operations == {"set", "add", "subtract"}

IdleAdmin == [pc |-> "idle", product_id |-> "unknown", operation |-> "set",
              quantity |-> 0, stock_quantity |-> 0, status |-> 0]

InitAdmin == admin = IdleAdmin

\* PUT /api/v1/products/{product_id}/stock arrives.
update_stock_request ==
    /\ admin.pc \in {"idle", "done"}
    /\ \E pid \in ProductIds, operation \in Operations, q \in StockQuantities :
          \* stock levels are kept within 0..MaxStock
          /\ (pid \in Skus /\ operation = "add")
                => products[pid].stock_quantity + q <= MaxStock
          /\ admin' = [IdleAdmin EXCEPT !.pc = "select", !.product_id = pid,
                                        !.operation = operation, !.quantity = q]
    /\ UNCHANGED AdminFrame

\* The value update_stock assigns to product.stock_quantity (lines 291-298).
update_stock_value(product, operation, quantity) ==
    IF operation = "set" THEN quantity
    ELSE IF operation = "add" THEN product.stock_quantity + quantity
    ELSE product.stock_quantity - quantity

\* The only adjustment update_stock rejects (lines 295-297).
update_stock_rejects(product, operation, quantity) ==
    operation = "subtract" /\ product.stock_quantity < quantity

\* update_stock, from the SELECT to the suspension at `await db.commit()`:
\* 404 for an unknown product, 400 for a subtract of more than the stock,
\* otherwise the new stock_quantity is set on the loaded object.
update_stock_select ==
    /\ admin.pc = "select"
    /\ IF admin.product_id \notin Skus
       THEN admin' = [admin EXCEPT !.pc = "done", !.status = 404]
       ELSE LET product == products[admin.product_id]
            IN  IF update_stock_rejects(product, admin.operation, admin.quantity)
                THEN admin' = [admin EXCEPT !.pc = "done", !.status = 400]
                ELSE admin' = [admin EXCEPT
                                 !.pc = "commit",
                                 !.stock_quantity =
                                     update_stock_value(product, admin.operation,
                                                        admin.quantity)]
    /\ UNCHANGED AdminFrame

\* db.commit(): UPDATE products SET stock_quantity = :value WHERE id = :id
\* is flushed and committed; the request answers 200.
update_stock_commit ==
    /\ admin.pc = "commit"
    /\ products' = [products EXCEPT ![admin.product_id].stock_quantity =
                                        admin.stock_quantity]
    /\ admin' = [admin EXCEPT !.pc = "done", !.status = 200]
    /\ UNCHANGED ep
    /\ UNCHANGED <<invVars, obVars, consVars, sagaVars, flowVars, expVars, payVars, trkVars>>

\* The reserve requests made while stock is adjusted.
StockReqs == {1}

\* Reserve requests and stock adjustments on the products table.
NextStock ==
    \/ \E r \in StockReqs : endpoint_reserve_request(r)
    \/ \E r \in StockReqs : endpoint_reserve_select(r)
    \/ \E r \in StockReqs : endpoint_reserve_commit(r)
    \/ update_stock_request
    \/ update_stock_select
    \/ update_stock_commit

NextEp ==
    \/ \E r \in Reqs : endpoint_reserve_request(r)
    \/ \E r \in Reqs : endpoint_reserve_select(r)
    \/ \E r \in Reqs : endpoint_reserve_commit(r)

\* =====================================================================
\* Transactional outbox  (services/shared/outbox.py)
\* Reliable producer     (services/shared/kafka_producer.py)
\* =====================================================================

\* OutboxPublisher.MAX_RETRIES, OutboxPublisher.BATCH_SIZE
MAX_RETRIES == 5
BATCH_SIZE == 100
\* ReliableKafkaProducer.__init__(producer_max_retries=3)
producer_max_retries == 3

\* positions of the rows in the outbox table, by created_at
RowSlots == {1, 2}
\* publish failures the bus may cause: enough to fail one row for good
MaxBusFaults == MAX_RETRIES + 1

PartitionKeys == {"order:a", "order:b"}
EventTypes == {"order.created"}

\* the OutboxPublisher instances; one of them runs where a specification
\* has a single publisher
Publishers == {1, 2}
OnePublisher == {1}

IdlePub == [pc |-> "poll", batch |-> <<>>, i |-> 1, attempt |-> 0, event_id |-> 0,
            tx |-> <<>>]

InitOb ==
    /\ outbox = <<>>
    /\ pub = [p \in Publishers |-> IdlePub]
    /\ bus = <<>>
    /\ dlq = <<>>
    /\ next_uuid = 1
    /\ faults = [bus |-> MaxBusFaults, pub_crash |-> MaxPubCrashes]

\* create_outbox_event: a Pending row with a fresh uuid and retry_count 0.
create_outbox_event(event_type, partition_key, id) ==
    [id |-> id, event_type |-> event_type, partition_key |-> partition_key,
     status |-> "pending", retry_count |-> 0, error_message |-> FALSE]

\* A business transaction commits a row: create_outbox_event and
\* OutboxRepository.insert, rows ordered by created_at.
outbox_insert ==
    /\ Len(outbox) < Cardinality(RowSlots)
    /\ \E event_type \in EventTypes, key \in PartitionKeys :
          outbox' = Append(outbox, create_outbox_event(event_type, key, next_uuid))
    /\ next_uuid' = next_uuid + 1
    /\ UNCHANGED <<pub, bus, dlq, faults>>
    /\ UNCHANGED ObFrame

\* SELECT * FROM outbox_events WHERE status = 'pending'
\*   ORDER BY created_at ASC LIMIT :limit FOR UPDATE SKIP LOCKED
RECURSIVE SelectPending(_, _, _)
SelectPending(rows, from, limit) ==
    IF from > Len(rows) \/ limit = 0 THEN <<>>
    ELSE IF rows[from].status = "pending"
         THEN <<from>> \o SelectPending(rows, from + 1, limit - 1)
         ELSE SelectPending(rows, from + 1, limit)

get_pending_after_oldest(rows, limit) == SelectPending(rows, 2, limit)

get_pending(rows, limit) == SelectPending(rows, 1, limit)

\* The rows another publisher's open transaction holds locked (FOR UPDATE).
Range(seq) == {seq[k] : k \in 1..Len(seq)}
LockedByOthers(p) == UNION {Range(pub[q].batch) : q \in Publishers \ {p}}

\* (mutant) a SELECT ... FOR UPDATE that sees locked rows as well.
skip_locked_none(rows, locked) == rows

\* SKIP LOCKED: rows locked by another transaction are left out of the
\* result.
skip_locked(rows, locked) ==
    [r \in 1..Len(rows) |-> IF r \in locked THEN [rows[r] EXCEPT !.status = "locked"]
                            ELSE rows[r]]

\* _publish_batch, lines 207-216: open the session, select the batch;
\* an empty batch returns 0 (the worker sleeps and polls again).  With a
\* batch, producer.publish is entered for its first row: the envelope gets
\* event_id = uuid4().
get_pending_events(p) ==
    /\ pub[p].pc = "poll"
    /\ LET events == get_pending(skip_locked(outbox, LockedByOthers(p)), BATCH_SIZE)
       IN  IF events = <<>>
           THEN UNCHANGED <<pub, next_uuid>>
           ELSE /\ pub' = [pub EXCEPT ![p] =
                              [pc |-> "publish", batch |-> events, i |-> 1, attempt |-> 0,
                               event_id |-> next_uuid,
                               tx |-> [r \in 1..Len(outbox) |-> outbox[r]]]]
                /\ next_uuid' = next_uuid + 1
    /\ UNCHANGED <<outbox, bus, dlq, faults>>
    /\ UNCHANGED ObFrame

\* The row of the batch being published (as selected).
CurrentRow(p) == pub[p].batch[pub[p].i]
CurrentEvent(p) == outbox[CurrentRow(p)]

\* EventEnvelope built by ReliableKafkaProducer.publish for the call
\* _publish_batch makes: event_id is the uuid drawn by publish,
\* correlation_id is the outbox row's id; with it, the message key.
Envelope(p) ==
    [event_id |-> pub[p].event_id, event_type |-> CurrentEvent(p).event_type,
     correlation_id |-> CurrentEvent(p).id, partition_key |-> CurrentEvent(p).partition_key]

\* OutboxRepository.mark_published / mark_failed / increment_retry, on the
\* session's (uncommitted) row versions.
mark_published(tx, r) == [tx EXCEPT ![r].status = "published"]
mark_failed(tx, r) ==
    [tx EXCEPT ![r].status = "failed", ![r].retry_count = @ + 1,
               ![r].error_message = TRUE]
increment_retry(tx, r) == [tx EXCEPT ![r].retry_count = @ + 1]

\* The loop of _publish_batch moves to the next event (publish is entered
\* for it and draws a new event_id) or, after the last, to session.commit().
NextEvent(p, tx) ==
    IF pub[p].i < Len(pub[p].batch)
    THEN [pub EXCEPT ![p].i = @ + 1, ![p].attempt = 0, ![p].event_id = next_uuid,
                     ![p].tx = tx]
    ELSE [pub EXCEPT ![p].pc = "commit", ![p].tx = tx]

UuidAfterEvent(p) == IF pub[p].i < Len(pub[p].batch) THEN next_uuid + 1 ELSE next_uuid

\* What _publish_batch does with the value producer.publish returned
\* (lines 219-229): the value is not looked at; the row is marked published.
after_publish(tx, r, acked) == mark_published(tx, r)

\* send_and_wait is acknowledged: the bus holds the envelope, publish
\* returns True, _publish_batch marks the row published.
send_ack(p) ==
    /\ pub[p].pc = "publish"
    /\ bus' = Append(bus, Envelope(p))
    /\ pub' = NextEvent(p, after_publish(pub[p].tx, CurrentRow(p), TRUE))
    /\ next_uuid' = UuidAfterEvent(p)
    /\ UNCHANGED <<outbox, dlq, faults>>
    /\ UNCHANGED ObFrame

\* send_and_wait raises KafkaError on an attempt before the last: publish
\* sleeps and tries again.
send_kafka_error_retry(p) ==
    /\ pub[p].pc = "publish"
    /\ faults.bus > 0
    /\ pub[p].attempt < producer_max_retries
    /\ pub' = [pub EXCEPT ![p].attempt = @ + 1]
    /\ faults' = [faults EXCEPT !.bus = @ - 1]
    /\ UNCHANGED <<outbox, bus, dlq, next_uuid>>
    /\ UNCHANGED ObFrame

\* _send_to_dlq: the record put on the dead-letter topic.
dlq_payload(envelope) == [original_topic |-> "orders", original_event |-> envelope]

\* send_and_wait raises KafkaError on the last attempt: publish calls
\* _send_to_dlq (whose own send may fail and is then only logged) and
\* returns False; _publish_batch goes on as after any return.
send_kafka_error_giveup(p) ==
    /\ pub[p].pc = "publish"
    /\ faults.bus > 0
    /\ pub[p].attempt = producer_max_retries
    /\ \/ dlq' = Append(dlq, dlq_payload(Envelope(p)))
       \/ UNCHANGED dlq
    /\ pub' = NextEvent(p, after_publish(pub[p].tx, CurrentRow(p), FALSE))
    /\ next_uuid' = UuidAfterEvent(p)
    /\ faults' = [faults EXCEPT !.bus = @ - 1]
    /\ UNCHANGED <<outbox, bus>>
    /\ UNCHANGED ObFrame

\* The except branch of _publish_batch (lines 236-247), with the
\* retry_count of the event as it was selected.
on_publish_exception(tx, r, event) ==
    IF event.retry_count >= MAX_RETRIES THEN mark_failed(tx, r)
    ELSE increment_retry(tx, r)

\* producer.publish raises (an exception that is not a KafkaError, or
\* RuntimeError "Producer not started"): the except branch runs.
send_raises(p) ==
    /\ pub[p].pc = "publish"
    /\ faults.bus > 0
    /\ pub' = NextEvent(p, on_publish_exception(pub[p].tx, CurrentRow(p), CurrentEvent(p)))
    /\ next_uuid' = UuidAfterEvent(p)
    /\ faults' = [faults EXCEPT !.bus = @ - 1]
    /\ UNCHANGED <<outbox, bus, dlq>>
    /\ UNCHANGED ObFrame

\* session.commit() at the end of _publish_batch: the batch's row versions
\* become the committed rows and their locks are released (the other rows
\* are untouched).
batch_commit(p) ==
    /\ pub[p].pc = "commit"
    /\ outbox' = [r \in 1..Len(outbox) |->
                     IF r \in Range(pub[p].batch) THEN pub[p].tx[r] ELSE outbox[r]]
    /\ pub' = [pub EXCEPT ![p] = IdlePub]
    /\ UNCHANGED <<bus, dlq, next_uuid, faults>>
    /\ UNCHANGED ObFrame

\* The publisher process stops inside _publish_batch (killed, or an error
\* leaves the `async with`): the session's transaction is rolled back;
\* OutboxPublisher.start runs _publish_batch again.
publisher_crash(p) ==
    /\ pub[p].pc # "poll"
    /\ faults.pub_crash > 0
    /\ pub' = [pub EXCEPT ![p] = IdlePub]
    /\ faults' = [faults EXCEPT !.pub_crash = @ - 1]
    /\ UNCHANGED <<outbox, bus, dlq, next_uuid>>
    /\ UNCHANGED ObFrame

NextPublishers(instances) ==
    \/ outbox_insert
    \/ \E p \in instances : get_pending_events(p)
    \/ \E p \in instances : send_ack(p)
    \/ \E p \in instances : send_kafka_error_retry(p)
    \/ \E p \in instances : send_kafka_error_giveup(p)
    \/ \E p \in instances : send_raises(p)
    \/ \E p \in instances : batch_commit(p)
    \/ \E p \in instances : publisher_crash(p)

NextOb == NextPublishers(OnePublisher)

\* Two publisher instances on the same outbox table.
NextPubs == NextPublishers(Publishers)

\* =====================================================================
\* Reliable consumer  (services/shared/kafka_consumer.py)
\* =====================================================================

\* ReliableKafkaConsumer.__init__(max_retries=3, retry_backoff_ms=100)
consumer_max_retries == 3
retry_backoff_ms == 100
\* IdempotencyStore.mark_processed: the in-memory set is cleared above this
PROCESSED_SET_LIMIT == 100000

\* handler failures: enough to use up every attempt for one message
MaxHandlerFaults == consumer_max_retries + 1

Members == {"m1", "m2"}
\* event types the group registered a handler for
Handlers == {"order.created"}

ConsumerAt(member, position) ==
    [member |-> member, pc |-> "fetch", position |-> position, attempt |-> 0,
     wait_time |-> 0]

InitCons ==
    /\ offsets = 0
    /\ cons = ConsumerAt("m1", 0)
    /\ processed = [m \in Members |-> {}]
    /\ redis_processed = {}
    /\ effects = <<>>
    /\ dlq_log = {}
    /\ cfaults = [handler |-> MaxHandlerFaults, crash |-> MaxConsCrashes]

\* The message the owner is working on.
Message == bus[cons.position]

\* IdempotencyStore.is_processed
is_processed(member, event_id) ==
    IF use_redis THEN event_id \in redis_processed
    ELSE event_id \in processed[member]

\* IdempotencyStore.mark_processed, in-memory branch
mark_in_memory(set, event_id) ==
    IF Cardinality(set \cup {event_id}) > PROCESSED_SET_LIMIT THEN {}
    ELSE set \cup {event_id}

\* The handler's side effect took place once more for this event.
SideEffect(event_id) ==
    IF event_id \in DOMAIN effects
    THEN [effects EXCEPT ![event_id] = @ + 1]
    ELSE effects @@ (event_id :> 1)

\* consume, lines 133-164: the next message of the partition is delivered;
\* a processed event_id goes straight to commit, an event type without a
\* handler counts as success, otherwise the first handler attempt is due.
consume_next ==
    /\ cons.pc = "fetch"
    /\ cons.position < Len(bus)
    /\ LET message == bus[cons.position + 1]
       IN  cons' = [cons EXCEPT
                      !.position = @ + 1,
                      !.attempt = 0,
                      !.wait_time = 0,
                      !.pc = IF is_processed(cons.member, message.event_id) THEN "commit"
                             ELSE IF message.event_type \notin Handlers THEN "mark"
                             ELSE "process"]
    /\ UNCHANGED <<offsets, processed, redis_processed, use_redis, effects, dlq_log,
                   cfaults>>
    /\ UNCHANGED ConsFrame

\* _process_with_retry: the handler runs to its end and returns.
handler_returns ==
    /\ cons.pc = "process"
    /\ effects' = SideEffect(Message.event_id)
    /\ cons' = [cons EXCEPT !.pc = "mark"]
    /\ UNCHANGED <<offsets, processed, redis_processed, use_redis, dlq_log, cfaults>>
    /\ UNCHANGED ConsFrame

\* _process_with_retry, the except branch for attempt number `attempt`.
after_handler_exception(attempt) ==
    IF attempt < consumer_max_retries THEN "process" ELSE "commit"

\* (mutant) a wait that grows by the base instead of doubling.
wait_time_linear(attempt) == retry_backoff_ms * (attempt + 1)

\* wait_time = retry_backoff_ms * (2 ** attempt) / 1000, the argument of
\* asyncio.sleep in seconds; kept in milliseconds here.
wait_time(attempt) == retry_backoff_ms * 2 ^ attempt

\* The handler raises, before or after its side effect took place: another
\* attempt follows after the sleep, or after the last one _send_to_dlq logs
\* the event and consume commits the offset.
handler_raises ==
    /\ cons.pc = "process"
    /\ cfaults.handler > 0
    /\ \/ effects' = SideEffect(Message.event_id)
       \/ UNCHANGED effects
    /\ cons' = [cons EXCEPT !.pc = after_handler_exception(cons.attempt),
                            !.attempt = @ + 1,
                            !.wait_time = IF cons.attempt < consumer_max_retries
                                          THEN wait_time(cons.attempt) ELSE @]
    /\ dlq_log' = IF cons.attempt < consumer_max_retries THEN dlq_log
                  ELSE dlq_log \cup {Message.event_id}
    /\ cfaults' = [cfaults EXCEPT !.handler = @ - 1]
    /\ UNCHANGED <<offsets, processed, redis_processed, use_redis>>
    /\ UNCHANGED ConsFrame

\* consume, lines 166-169: success, the event_id is marked processed.
mark_processed ==
    /\ cons.pc = "mark"
    /\ IF use_redis
       THEN /\ redis_processed' = redis_processed \cup {Message.event_id}
            /\ UNCHANGED processed
       ELSE /\ processed' = [processed EXCEPT
                               ![cons.member] = mark_in_memory(@, Message.event_id)]
            /\ UNCHANGED redis_processed
    /\ cons' = [cons EXCEPT !.pc = "commit"]
    /\ UNCHANGED <<offsets, use_redis, effects, dlq_log, cfaults>>
    /\ UNCHANGED ConsFrame

\* self._consumer.commit(): the position after the consumed message
\* becomes the group's committed offset.
commit ==
    /\ cons.pc = "commit"
    /\ offsets' = cons.position
    /\ cons' = [cons EXCEPT !.pc = "fetch"]
    /\ UNCHANGED <<processed, redis_processed, use_redis, effects, dlq_log, cfaults>>
    /\ UNCHANGED ConsFrame

\* The owning member's process dies anywhere in consume(): its in-memory
\* set is gone, the partition goes to a member of the group (the restarted
\* one or another), which resumes at the committed offset.
consumer_crash ==
    /\ cfaults.crash > 0
    /\ \E member \in Members : cons' = ConsumerAt(member, offsets)
    /\ processed' = [processed EXCEPT ![cons.member] = {}]
    /\ cfaults' = [cfaults EXCEPT !.crash = @ - 1]
    /\ UNCHANGED <<offsets, redis_processed, use_redis, effects, dlq_log>>
    /\ UNCHANGED ConsFrame

\* An IdempotencyStore without a Redis client, taken alone: stores that
\* have marked nothing, or event ids 1..n with n up to the limit of the
\* in-memory set, and callers that mark an old id or ids around the limit.
StoreSizes == {0} \cup ((PROCESSED_SET_LIMIT - MaxNewIds)..PROCESSED_SET_LIMIT)
StoreIds == {1} \cup (PROCESSED_SET_LIMIT..(PROCESSED_SET_LIMIT + MaxNewIds))

InitStore ==
    /\ offsets = 0
    /\ cons = ConsumerAt("m1", 0)
    /\ processed \in [Members -> {1..n : n \in StoreSizes}]
    /\ redis_processed = {}
    /\ use_redis = FALSE
    /\ effects = <<>>
    /\ dlq_log = {}
    /\ cfaults = [handler |-> MaxHandlerFaults, crash |-> MaxConsCrashes]

\* IdempotencyStore.mark_processed(event_id) on the store of a member.
store_mark_processed(member, event_id) ==
    /\ ~use_redis
    /\ processed' = [processed EXCEPT ![member] = mark_in_memory(@, event_id)]
    /\ UNCHANGED <<offsets, cons, redis_processed, use_redis, effects, dlq_log, cfaults>>
    /\ UNCHANGED ConsFrame

NextStore ==
    \E member \in Members, event_id \in StoreIds :
        store_mark_processed(member, event_id)

NextCons ==
    \/ consume_next
    \/ handler_returns
    \/ handler_raises
    \/ mark_processed
    \/ commit
    \/ consumer_crash

\* The outbox publisher on a bus that acknowledges every send, feeding the
\* consumer group.
NextPipe ==
    \/ outbox_insert
    \/ \E p \in OnePublisher : get_pending_events(p)
    \/ \E p \in OnePublisher : send_ack(p)
    \/ \E p \in OnePublisher : batch_commit(p)
    \/ \E p \in OnePublisher : publisher_crash(p)
    \/ NextCons

\* =====================================================================
\* Order service and inventory service on the bus
\*   (services/order-service/main.py, services/inventory-service/main.py,
\*    services/shared/kafka_client.py)
\* =====================================================================

OrderIds == {"a", "b"}

\* PartitionStrategy.order_key
order_key(order_id) ==
    IF order_id = "a" THEN "order:a" ELSE "order:b"

\* OrderCreate.items: one line, or one unit of each SKU
OrderItemLists == {<<a>> : a \in Item} \cup
                  {<<[sku_id |-> "p1", quantity |-> 1], [sku_id |-> "p2", quantity |-> 1]>>}

NoOrder == [status |-> "none", items |-> <<>>]
IdleOrderReq == [create |-> "idle", cancel |-> "idle"]

InitSaga ==
    /\ orders = [o \in OrderIds |-> NoOrder]
    /\ oreq = [o \in OrderIds |-> IdleOrderReq]
    /\ orders_topic = <<>>
    /\ inventory_topic = <<>>
    /\ inv_position = 0
    /\ sfaults = [bus |-> MaxSagaBusFaults, crash |-> MaxSagaCrashes]

\* create_order, lines 237-264: Order(status=PENDING) and its OrderItems
\* are added and committed.
create_order_commit(o) ==
    /\ oreq[o].create = "idle"
    /\ \E items \in OrderItemLists :
          orders' = [orders EXCEPT ![o] = [status |-> "pending", items |-> items]]
    /\ oreq' = [oreq EXCEPT ![o].create = "committed"]
    /\ UNCHANGED <<orders_topic, inventory_topic, inv_position, sfaults>>
    /\ UNCHANGED SagaFrame

\* The event create_order publishes (lines 268-285).
order_created_event(o) ==
    [event_type |-> "order.created", order_id |-> o, items |-> orders[o].items]

\* create_order, lines 267-305: kafka_producer.publish to "orders"
\* succeeds, the request answers 201.
create_order_publish(o) ==
    /\ oreq[o].create = "committed"
    /\ orders_topic' = Append(orders_topic, order_created_event(o))
    /\ oreq' = [oreq EXCEPT ![o].create = "201"]
    /\ UNCHANGED <<orders, inventory_topic, inv_position, sfaults>>
    /\ UNCHANGED SagaFrame

\* KafkaProducer.publish raises (send_and_wait fails, or the producer is
\* not started): the exception leaves create_order, the request answers 500.
create_order_publish_raises(o) ==
    /\ oreq[o].create = "committed"
    /\ sfaults.bus > 0
    /\ oreq' = [oreq EXCEPT ![o].create = "500"]
    /\ sfaults' = [sfaults EXCEPT !.bus = @ - 1]
    /\ UNCHANGED <<orders, orders_topic, inventory_topic, inv_position>>
    /\ UNCHANGED SagaFrame

\* No cancel request of the order is open: none was made yet, or the last
\* one was answered 404, 400 or 200 (a client may then send another).
Answered == {"idle", "404", "400", "200"}

\* cancel_order, lines 384-399: a missing order answers 404, an order that
\* is not pending or confirmed answers 400; otherwise the status becomes
\* cancelled and is committed.
cancel_order_commit(o) ==
    /\ oreq[o].cancel \in Answered
    /\ IF orders[o].status = "none"
       THEN /\ oreq' = [oreq EXCEPT ![o].cancel = "404"]
            /\ UNCHANGED orders
       ELSE IF orders[o].status \notin {"pending", "confirmed"}
       THEN /\ oreq' = [oreq EXCEPT ![o].cancel = "400"]
            /\ UNCHANGED orders
       ELSE /\ orders' = [orders EXCEPT ![o].status = "cancelled"]
            /\ oreq' = [oreq EXCEPT ![o].cancel = "committed"]
    /\ UNCHANGED <<orders_topic, inventory_topic, inv_position, sfaults>>
    /\ UNCHANGED SagaFrame

order_cancelled_event(o) ==
    [event_type |-> "order.cancelled", order_id |-> o, items |-> <<>>]

\* cancel_order, lines 401-419: cache invalidation and publish succeed.
cancel_order_publish(o) ==
    /\ oreq[o].cancel = "committed"
    /\ orders_topic' = Append(orders_topic, order_cancelled_event(o))
    /\ oreq' = [oreq EXCEPT ![o].cancel = "200"]
    /\ UNCHANGED <<orders, inventory_topic, inv_position, sfaults>>
    /\ UNCHANGED SagaFrame

\* redis_client.delete or kafka_producer.publish raises after the commit.
cancel_order_publish_raises(o) ==
    /\ oreq[o].cancel = "committed"
    /\ sfaults.bus > 0
    /\ oreq' = [oreq EXCEPT ![o].cancel = "500"]
    /\ sfaults' = [sfaults EXCEPT !.bus = @ - 1]
    /\ UNCHANGED <<orders, orders_topic, inventory_topic, inv_position>>
    /\ UNCHANGED SagaFrame

\* A request that died with its process.
Killed(pc) == IF pc = "committed" THEN "killed" ELSE pc

\* The order-service process dies while requests are between their commit
\* and their publish.
order_service_crash ==
    /\ sfaults.crash > 0
    /\ \E o \in OrderIds : "committed" \in {oreq[o].create, oreq[o].cancel}
    /\ oreq' = [o \in OrderIds |->
                   [create |-> Killed(oreq[o].create), cancel |-> Killed(oreq[o].cancel)]]
    /\ sfaults' = [sfaults EXCEPT !.crash = @ - 1]
    /\ UNCHANGED <<orders, orders_topic, inventory_topic, inv_position>>
    /\ UNCHANGED SagaFrame

\* inventory-service handle_order_created (lines 86-110): the event it
\* publishes for an order.created event.
handle_order_created(event) ==
    [event_type |-> "inventory.reserved", order_id |-> event.order_id,
     items |-> event.items]

\* inventory-service handle_order_cancelled
handle_order_cancelled(event) ==
    [event_type |-> "inventory.released", order_id |-> event.order_id, items |-> <<>>]

\* KafkaConsumer.consume of the inventory service (group
\* "inventory-service", topic "orders"): the next message is dispatched to
\* the handler registered for its event_type; the handler publishes.
inventory_consume ==
    /\ inv_position < Len(orders_topic)
    /\ LET event == orders_topic[inv_position + 1]
       IN  inventory_topic' =
             IF event.event_type = "order.created"
             THEN Append(inventory_topic, handle_order_created(event))
             ELSE IF event.event_type = "order.cancelled"
             THEN Append(inventory_topic, handle_order_cancelled(event))
             ELSE inventory_topic
    /\ inv_position' = inv_position + 1
    /\ UNCHANGED <<orders, oreq, orders_topic, sfaults>>
    /\ UNCHANGED SagaFrame

\* The handler's publish raises: consume logs the exception and goes on
\* with the next message (offsets are auto-committed).
inventory_consume_publish_raises ==
    /\ inv_position < Len(orders_topic)
    /\ sfaults.bus > 0
    /\ inv_position' = inv_position + 1
    /\ sfaults' = [sfaults EXCEPT !.bus = @ - 1]
    /\ UNCHANGED <<orders, oreq, orders_topic, inventory_topic>>
    /\ UNCHANGED SagaFrame

\* ---------------------------------------------------------------------
\* The consumers of the order service and of the payment service
\*   (services/order-service/main.py, services/payment-service/main.py)
\* ---------------------------------------------------------------------

InitFlow ==
    /\ payments_topic = <<>>
    /\ positions = [order_inventory |-> 0, order_payments |-> 0, payment |-> 0]
    /\ charges = [o \in OrderIds |-> 0]
    /\ redeliveries = MaxRedeliveries

\* order-service handle_inventory_reserved: the event it publishes.
handle_inventory_reserved(event) ==
    [event_type |-> "payment.initiated", order_id |-> event.order_id, items |-> <<>>]

\* order-service handle_payment_completed: the event it publishes.
handle_payment_completed(event) ==
    [event_type |-> "order.confirmed", order_id |-> event.order_id, items |-> <<>>]

\* order-service handle_payment_failed: the event it publishes; the
\* payment.failed event has no items, so event.get("items", []) is [].
handle_payment_failed(event) ==
    [event_type |-> "inventory.released", order_id |-> event.order_id, items |-> <<>>]

\* KafkaConsumer.consume of the order service (group "order-service"), a
\* message of topic "inventory": inventory.reserved goes to
\* handle_inventory_reserved, which publishes payment.initiated;
\* inventory.released goes to handle_inventory_released, which only logs.
order_consume_inventory ==
    /\ positions.order_inventory < Len(inventory_topic)
    /\ LET event == inventory_topic[positions.order_inventory + 1]
       IN  payments_topic' =
             IF event.event_type = "inventory.reserved"
             THEN Append(payments_topic, handle_inventory_reserved(event))
             ELSE payments_topic
    /\ positions' = [positions EXCEPT !.order_inventory = @ + 1]
    /\ UNCHANGED <<charges, redeliveries>>
    /\ UNCHANGED sagaVars
    /\ UNCHANGED FlowFrame

\* The same consumer, a message of topic "payments": payment.completed
\* goes to handle_payment_completed (publishes order.confirmed to
\* "orders"), payment.failed to handle_payment_failed (publishes
\* inventory.released to "inventory"); payment.initiated has no handler
\* here.  No handler reads or writes the orders table.
order_consume_payments ==
    /\ positions.order_payments < Len(payments_topic)
    /\ LET event == payments_topic[positions.order_payments + 1]
       IN  /\ orders_topic' =
                IF event.event_type = "payment.completed"
                THEN Append(orders_topic, handle_payment_completed(event))
                ELSE orders_topic
           /\ inventory_topic' =
                IF event.event_type = "payment.failed"
                THEN Append(inventory_topic, handle_payment_failed(event))
                ELSE inventory_topic
    /\ positions' = [positions EXCEPT !.order_payments = @ + 1]
    /\ UNCHANGED <<payments_topic, charges, redeliveries>>
    /\ UNCHANGED <<orders, oreq, inv_position, sfaults>>
    /\ UNCHANGED FlowFrame

\* payment-service handle_payment_initiated: the event it publishes after
\* the gateway answered.
handle_payment_initiated(event, success) ==
    [event_type |-> IF success THEN "payment.completed" ELSE "payment.failed",
     order_id |-> event.order_id, items |-> <<>>]

\* KafkaConsumer.consume of the payment service (group "payment-service",
\* topic "payments"): payment.initiated goes to handle_payment_initiated,
\* which charges through the gateway and publishes the outcome; the other
\* event types of the topic have no handler here.
payment_consume ==
    /\ positions.payment < Len(payments_topic)
    /\ LET event == payments_topic[positions.payment + 1]
       IN  IF event.event_type = "payment.initiated"
           THEN \E success \in BOOLEAN :
                  /\ payments_topic' =
                       Append(payments_topic, handle_payment_initiated(event, success))
                  /\ charges' = IF success
                                THEN [charges EXCEPT ![event.order_id] = @ + 1]
                                ELSE charges
           ELSE UNCHANGED <<payments_topic, charges>>
    /\ positions' = [positions EXCEPT !.payment = @ + 1]
    /\ UNCHANGED redeliveries
    /\ UNCHANGED sagaVars
    /\ UNCHANGED FlowFrame

\* A consumer is restarted (or its partition reassigned) before the
\* auto-commit of the offset of the message it handled last
\* (enable_auto_commit=True): the bus delivers that message again.
inventory_redelivery ==
    /\ redeliveries > 0
    /\ inv_position > 0
    /\ inv_position' = inv_position - 1
    /\ redeliveries' = redeliveries - 1
    /\ UNCHANGED <<payments_topic, positions, charges>>
    /\ UNCHANGED <<orders, oreq, orders_topic, inventory_topic, sfaults>>
    /\ UNCHANGED FlowFrame

order_payment_redelivery ==
    /\ redeliveries > 0
    /\ \E group \in DOMAIN positions :
          /\ positions[group] > 0
          /\ positions' = [positions EXCEPT ![group] = @ - 1]
    /\ redeliveries' = redeliveries - 1
    /\ UNCHANGED <<payments_topic, charges>>
    /\ UNCHANGED sagaVars
    /\ UNCHANGED FlowFrame

NextSaga ==
    \/ \E o \in OrderIds : create_order_commit(o)
    \/ \E o \in OrderIds : create_order_publish(o)
    \/ \E o \in OrderIds : create_order_publish_raises(o)
    \/ \E o \in OrderIds : cancel_order_commit(o)
    \/ \E o \in OrderIds : cancel_order_publish(o)
    \/ \E o \in OrderIds : cancel_order_publish_raises(o)
    \/ order_service_crash
    \/ inventory_consume
    \/ inventory_consume_publish_raises

\* =====================================================================
\* Payment service HTTP surface  (services/payment-service/main.py)
\* =====================================================================

\* concurrent POST /api/v1/payments requests
PayReqs == {1, 2}
\* payment ids a refund may name: the rows the requests can create, and one
\* that does not exist
PaymentIds == 1..(Cardinality(PayReqs) + 1)

IdlePayReq == [pc |-> "idle", payment_id |-> 0, status |-> "none", transaction_id |-> 0]
IdleRefund == [pc |-> "idle", payment_id |-> 0]

InitPay ==
    /\ payments = <<>>
    /\ preq = [q \in PayReqs |-> IdlePayReq]
    /\ rreq = IdleRefund
    /\ pfaults = [bus |-> MaxPayBusFaults, crash |-> MaxPayCrashes]

\* Payment(order_id=..., status=PaymentStatus.PROCESSING); transaction_id
\* is NULL (0 here).
Payment(order_id) ==
    [order_id |-> order_id, status |-> "processing", transaction_id |-> 0]

\* create_payment, lines 262-272: the row is added with status PROCESSING
\* and committed.
create_payment_insert(q) ==
    /\ preq[q].pc = "idle"
    /\ \E o \in OrderIds : payments' = Append(payments, Payment(o))
    /\ preq' = [preq EXCEPT ![q] = [pc |-> "gateway", payment_id |-> Len(payments) + 1,
                                      status |-> "processing", transaction_id |-> 0]]
    /\ UNCHANGED <<rreq, pfaults>>
    /\ UNCHANGED PayFrame

\* The session's row after the gateway answered (lines 280-282, 299-300).
create_payment_set(req, success) ==
    [req EXCEPT !.status = IF success THEN "completed" ELSE "failed",
                !.transaction_id = IF success THEN req.payment_id ELSE 0]

\* The event create_payment publishes (lines 285-297, 303-314).
payment_event(event_type, payment_id) ==
    [event_type |-> event_type, order_id |-> payments[payment_id].order_id,
     items |-> <<>>, payment_id |-> payment_id]

\* What the gateway's answer adds to the successful charges of an order.
gateway_charge(order_id, success) ==
    IF success THEN [charges EXCEPT ![order_id] = @ + 1] ELSE charges

\* create_payment, lines 275-314: the gateway answers, the session's row
\* gets its status (and transaction_id), the event is published; nothing
\* is committed yet.
create_payment_charge(q) ==
    /\ preq[q].pc = "gateway"
    /\ \E success \in BOOLEAN :
          /\ preq' = [preq EXCEPT ![q] = [create_payment_set(@, success) EXCEPT !.pc = "commit"]]
          /\ payments_topic' =
               Append(payments_topic,
                      payment_event(IF success THEN "payment.completed" ELSE "payment.failed",
                                    preq[q].payment_id))
          /\ charges' = gateway_charge(payments[preq[q].payment_id].order_id, success)
    /\ UNCHANGED <<payments, rreq, pfaults>>
    /\ UNCHANGED <<positions, redeliveries>>
    /\ UNCHANGED PayFlowFrame

\* kafka_producer.publish raises after the gateway answered: the exception
\* leaves create_payment, the session is closed without a commit, the
\* request answers 500.
create_payment_publish_raises(q) ==
    /\ preq[q].pc = "gateway"
    /\ pfaults.bus > 0
    /\ \E success \in BOOLEAN :
          charges' = gateway_charge(payments[preq[q].payment_id].order_id, success)
    /\ preq' = [preq EXCEPT ![q].pc = "500"]
    /\ pfaults' = [pfaults EXCEPT !.bus = @ - 1]
    /\ UNCHANGED <<payments, rreq>>
    /\ UNCHANGED <<payments_topic, positions, redeliveries>>
    /\ UNCHANGED PayFlowFrame

\* create_payment, lines 316-335: the session's row is committed; a failed
\* payment answers 402, a completed one 201.
create_payment_commit(q) ==
    /\ preq[q].pc = "commit"
    /\ payments' = [payments EXCEPT
                       ![preq[q].payment_id].status = preq[q].status,
                       ![preq[q].payment_id].transaction_id = preq[q].transaction_id]
    /\ preq' = [preq EXCEPT ![q].pc = IF preq[q].status = "failed" THEN "402" ELSE "201"]
    /\ UNCHANGED <<rreq, pfaults>>
    /\ UNCHANGED PayFrame

\* No refund request is open.
RefundAnswered == {"idle", "404", "400", "500", "200"}

refundable_whatever_status(payment) == TRUE

\* The guard of refund_payment (line 383).
refundable(payment) == payment.status = "completed"

\* refund_payment, lines 373-387: a missing payment answers 404, a payment
\* that is not completed answers 400; otherwise the gateway is called.
refund_payment_select(payment_id) ==
    /\ rreq.pc \in RefundAnswered
    /\ rreq' = IF payment_id \notin DOMAIN payments
                 THEN [pc |-> "404", payment_id |-> payment_id]
               ELSE IF ~refundable(payments[payment_id])
                 THEN [pc |-> "400", payment_id |-> payment_id]
               ELSE [pc |-> "gateway", payment_id |-> payment_id]
    /\ UNCHANGED <<payments, preq, pfaults>>
    /\ UNCHANGED PayFrame

\* refund_payment, lines 389-418: the gateway refunds and payment.refunded
\* is published (the commit follows), or the gateway declines and the
\* request answers 500.
refund_payment_gateway ==
    /\ rreq.pc = "gateway"
    /\ \E success \in BOOLEAN :
          IF success
          THEN /\ payments_topic' =
                    Append(payments_topic, payment_event("payment.refunded", rreq.payment_id))
               /\ rreq' = [rreq EXCEPT !.pc = "commit"]
          ELSE /\ rreq' = [rreq EXCEPT !.pc = "500"]
               /\ UNCHANGED payments_topic
    /\ UNCHANGED <<payments, preq, pfaults>>
    /\ UNCHANGED <<positions, charges, redeliveries>>
    /\ UNCHANGED PayFlowFrame

\* refund_payment, lines 412-413: status REFUNDED is committed.
refund_payment_commit ==
    /\ rreq.pc = "commit"
    /\ payments' = [payments EXCEPT ![rreq.payment_id].status = "refunded"]
    /\ rreq' = [rreq EXCEPT !.pc = "200"]
    /\ UNCHANGED <<preq, pfaults>>
    /\ UNCHANGED PayFrame

\* A request that died with its process.
KilledPay(pc) == IF pc \in {"gateway", "commit"} THEN "killed" ELSE pc

\* The payment-service process dies while requests are between their
\* first commit and their last.
payment_service_crash ==
    /\ pfaults.crash > 0
    /\ \E pc \in {preq[q].pc : q \in PayReqs} \cup {rreq.pc} : pc \in {"gateway", "commit"}
    /\ preq' = [q \in PayReqs |-> [preq[q] EXCEPT !.pc = KilledPay(@)]]
    /\ rreq' = [rreq EXCEPT !.pc = KilledPay(@)]
    /\ pfaults' = [pfaults EXCEPT !.crash = @ - 1]
    /\ UNCHANGED payments
    /\ UNCHANGED PayFrame

NextPay ==
    \/ \E q \in PayReqs : create_payment_insert(q)
    \/ \E q \in PayReqs : create_payment_charge(q)
    \/ \E q \in PayReqs : create_payment_publish_raises(q)
    \/ \E q \in PayReqs : create_payment_commit(q)
    \/ \E payment_id \in PaymentIds : refund_payment_select(payment_id)
    \/ refund_payment_gateway
    \/ refund_payment_commit
    \/ payment_service_crash

\* =====================================================================
\* Workflow tracking  (services/shared/workflow_tracker.py)
\* =====================================================================

TrackerCalls == {1, 2}
TrackedEvents == {"e1", "e2"}

IdleTrackerCall == [pc |-> "idle", event_id |-> "e1", reply |-> "none", status |-> "none"]

InitTrk ==
    /\ idem_keys = {}
    /\ duplicates_total = 0
    /\ tcalls = [c \in TrackerCalls |-> IdleTrackerCall]
    /\ answers = [e \in TrackedEvents |-> [new |-> 0, duplicate |-> 0]]
    /\ completed = {}
    /\ key_expiries = MaxKeyExpiries

\* (mutant) a plain SET: the key is written and the reply is always OK.
redis_set_overwriting(keys, key) == [keys |-> keys \cup {key}, reply |-> "OK"]

\* redis.set(key, "1", nx=True, ex=ttl): the key is created and the reply
\* is OK when it did not exist, otherwise nothing is written and the reply
\* is None.
redis_set_nx(keys, key) ==
    IF key \in keys THEN [keys |-> keys, reply |-> "None"]
    ELSE [keys |-> keys \cup {key}, reply |-> "OK"]

\* is_duplicate calls made so far for the event id.
Deliveries(event_id) ==
    answers[event_id].new + answers[event_id].duplicate
        + Cardinality({c \in TrackerCalls :
                          tcalls[c].pc = "replied" /\ tcalls[c].event_id = event_id})

\* process_event(event_id, ...) is called and is_duplicate sends its SET NX,
\* which Redis executes.
is_duplicate_set(c) ==
    /\ tcalls[c].pc = "idle"
    /\ \E event_id \in TrackedEvents :
          /\ Deliveries(event_id) < MaxDeliveries
          /\ LET set == redis_set_nx(idem_keys, event_id)
             IN  /\ idem_keys' = set.keys
                 /\ tcalls' = [tcalls EXCEPT ![c] =
                                  [pc |-> "replied", event_id |-> event_id,
                                   reply |-> set.reply, status |-> "none"]]
    /\ UNCHANGED <<duplicates_total, answers, completed, key_expiries, incidents>>
    /\ UNCHANGED TrkFrame

\* is_duplicate, lines 228-238, and process_event, lines 503-504: with the
\* reply None the duplicate counter is incremented, is_duplicate returns
\* True and process_event returns "skipped"; otherwise is_duplicate returns
\* False and the handler is awaited.
is_duplicate_returns(c) ==
    /\ tcalls[c].pc = "replied"
    /\ LET event_id == tcalls[c].event_id
       IN  IF tcalls[c].reply = "None"
           THEN /\ duplicates_total' = duplicates_total + 1
                /\ answers' = [answers EXCEPT ![event_id].duplicate = @ + 1]
                /\ tcalls' = [tcalls EXCEPT ![c].pc = "idle", ![c].status = "skipped"]
           ELSE /\ answers' = [answers EXCEPT ![event_id].new = @ + 1]
                /\ tcalls' = [tcalls EXCEPT ![c].pc = "handler"]
                /\ UNCHANGED duplicates_total
    /\ UNCHANGED <<idem_keys, completed, key_expiries, incidents>>
    /\ UNCHANGED TrkFrame

\* process_event, lines 509-510: the handler returns.
tracked_handler_returns(c) ==
    /\ tcalls[c].pc = "handler"
    /\ tcalls' = [tcalls EXCEPT ![c].pc = "idle", ![c].status = "processed"]
    /\ completed' = completed \cup {tcalls[c].event_id}
    /\ UNCHANGED <<idem_keys, duplicates_total, answers, key_expiries, incidents>>
    /\ UNCHANGED TrkFrame

\* process_event, lines 511-513: the handler raises; the error is logged
\* and raised again.
tracked_handler_raises(c) ==
    /\ tcalls[c].pc = "handler"
    /\ tcalls' = [tcalls EXCEPT ![c].pc = "idle", ![c].status = "raised"]
    /\ UNCHANGED <<idem_keys, duplicates_total, answers, completed, key_expiries,
                   incidents>>
    /\ UNCHANGED TrkFrame

\* The key of an event id reaches its TTL (ex=self.ttl, 24 hours), long
\* after the calls that were made for it have ended.
idempotency_key_expires(event_id) ==
    /\ key_expiries > 0
    /\ event_id \in idem_keys
    /\ \A c \in TrackerCalls : tcalls[c].event_id = event_id => tcalls[c].pc = "idle"
    /\ idem_keys' = idem_keys \ {event_id}
    /\ answers' = [answers EXCEPT ![event_id].new = 0]
    /\ key_expiries' = key_expiries - 1
    /\ UNCHANGED <<duplicates_total, tcalls, completed, incidents>>
    /\ UNCHANGED TrkFrame

NextTrk ==
    \/ \E c \in TrackerCalls : is_duplicate_set(c)
    \/ \E c \in TrackerCalls : is_duplicate_returns(c)
    \/ \E c \in TrackerCalls : tracked_handler_returns(c)
    \/ \E c \in TrackerCalls : tracked_handler_raises(c)
    \/ \E event_id \in TrackedEvents : idempotency_key_expires(event_id)

\* ---------------------------------------------------------------------
\* OversellDetector
\* ---------------------------------------------------------------------

\* quantities the detector is called with: a stock level may be reported
\* below zero, which is what the detector is there to catch
RequestedQuantities == 1..MaxQty
ReportedQuantities == (0 - 1)..MaxStock
ReservedQuantities == 0..MaxStock

InitOversell == incidents = <<>>

\* _record_incident: the incident is appended to self.incidents and
\* INVENTORY_OVERSELL_INCIDENTS is incremented.
record_incident(list, requested_qty, available_qty, reserved_qty, reason) ==
    Append(list, [requested_qty |-> requested_qty, available_qty |-> available_qty,
                  reserved_qty |-> reserved_qty, reason |-> reason])

\* INVENTORY_OVERSELL_INCIDENTS, summed over its labels
oversell_incidents_total == Len(incidents)

\* OversellDetector.check_and_record
check_and_record(list, requested_qty, available_qty, reserved_qty) ==
    IF requested_qty > available_qty
    THEN record_incident(list, requested_qty, available_qty, reserved_qty,
                         "requested_exceeds_available")
    ELSE IF available_qty < 0
    THEN record_incident(list, requested_qty, available_qty, reserved_qty,
                         "negative_available_stock")
    ELSE list

\* OversellDetector.verify_post_reservation
verify_post_reservation(list, new_available, new_reserved) ==
    IF new_available < 0
    THEN record_incident(list, 0, new_available, new_reserved, "post_reservation_negative")
    ELSE list

check_and_record_call ==
    /\ Len(incidents) < MaxIncidents
    /\ \E requested_qty \in RequestedQuantities, available_qty \in ReportedQuantities,
          reserved_qty \in ReservedQuantities :
          incidents' = check_and_record(incidents, requested_qty, available_qty,
                                        reserved_qty)
    /\ UNCHANGED <<idem_keys, duplicates_total, tcalls, answers, completed, key_expiries>>
    /\ UNCHANGED TrkFrame

verify_post_reservation_call ==
    /\ Len(incidents) < MaxIncidents
    /\ \E new_available \in ReportedQuantities, new_reserved \in ReservedQuantities :
          incidents' = verify_post_reservation(incidents, new_available, new_reserved)
    /\ UNCHANGED <<idem_keys, duplicates_total, tcalls, answers, completed, key_expiries>>
    /\ UNCHANGED TrkFrame

NextOversell ==
    \/ check_and_record_call
    \/ verify_post_reservation_call

\* =====================================================================
\* Specifications
\* =====================================================================

\* The consumers are built without a redis_client (ConsumerGroup.add_consumer)
\* or with one (ReliableKafkaConsumer(redis_client=...)).
Init == InitInv /\ InitEp /\ InitOb /\ InitCons /\ InitSaga /\ InitFlow /\ InitExp /\ InitPay /\ InitAdmin /\ InitTrk /\ InitOversell /\ use_redis = FALSE
InitPipe == InitInv /\ InitEp /\ InitOb /\ InitCons /\ InitSaga /\ InitFlow /\ InitExp /\ InitPay /\ InitAdmin /\ InitTrk /\ InitOversell /\ use_redis \in BOOLEAN

SpecInv == Init /\ [][NextInv]_vars
SpecEp == Init /\ [][NextEp]_vars
SpecOb == Init /\ [][NextOb]_vars
SpecObFair ==
    /\ SpecOb
    /\ \A p \in OnePublisher : WF_vars(get_pending_events(p))
    /\ \A p \in OnePublisher : WF_vars(send_ack(p))
    /\ \A p \in OnePublisher : WF_vars(batch_commit(p))
\* The reserve_stock calls made while the expiry worker is watched.
ExpiryCalls == {1}

\* The reservation service with the clock and the expiry worker.
NextExpiry ==
    \/ \E c \in ExpiryCalls : reserve_stock_start(c)
    \/ \E c \in ExpiryCalls : atomic_reserve(c)
    \/ \E c \in ExpiryCalls : rollback_reservations(c)
    \/ \E c \in ExpiryCalls : session_rollback(c)
    \/ \E c \in ExpiryCalls : session_commit(c)
    \/ \E c \in ExpiryCalls : store_idempotency(c)
    \/ \E rid \in ExpiryCalls : confirm_reservation(rid)
    \/ \E rid \in ExpiryCalls, reason \in {"cancelled", "expired"} :
          release_reservation(rid, reason)
    \/ ttl_passes
    \/ process_expired_reservations
    \/ worker_sleep

SpecExpiry == Init /\ [][NextExpiry]_vars

\* The worker loop keeps running and the clock keeps advancing.
SpecExpiryFair ==
    /\ SpecExpiry
    /\ WF_vars(process_expired_reservations)
    /\ WF_vars(worker_sleep)
    /\ WF_vars(ttl_passes)

\* The orders that go through the saga from the order to its payment.
FlowOrders == {"a"}

\* The saga from the order to its payment, without crashes and bus faults.
NextFlow ==
    \/ \E o \in FlowOrders : create_order_commit(o)
    \/ \E o \in FlowOrders : create_order_publish(o)
    \/ \E o \in FlowOrders : cancel_order_commit(o)
    \/ \E o \in FlowOrders : cancel_order_publish(o)
    \/ inventory_consume
    \/ order_consume_inventory
    \/ order_consume_payments
    \/ payment_consume
    \/ inventory_redelivery
    \/ order_payment_redelivery

SpecFlow == Init /\ [][NextFlow]_vars

\* Every consumer keeps polling and every request that committed goes on
\* to its publish; placing and cancelling orders, and re-deliveries, are
\* left to the environment.
SpecFlowFair ==
    /\ SpecFlow
    /\ WF_vars(inventory_consume)
    /\ WF_vars(order_consume_inventory)
    /\ WF_vars(order_consume_payments)
    /\ WF_vars(payment_consume)
    /\ \A o \in FlowOrders : WF_vars(create_order_publish(o))
    /\ \A o \in FlowOrders : WF_vars(cancel_order_publish(o))

SpecPay == Init /\ [][NextPay]_vars

SpecStock == Init /\ [][NextStock]_vars

SpecSaga == Init /\ [][NextSaga]_vars
SpecPipe == InitPipe /\ [][NextPipe]_vars
SpecTrk == Init /\ [][NextTrk]_vars
SpecOversell == Init /\ [][NextOversell]_vars
SpecPubs == Init /\ [][NextPubs]_vars
\* The rest of the system idle around the idempotency store taken alone.
InitStores == InitInv /\ InitEp /\ InitOb /\ InitStore /\ InitSaga /\ InitFlow /\ InitExp /\ InitPay /\ InitAdmin /\ InitTrk /\ InitOversell
SpecStore == InitStores /\ [][NextStore]_vars

\* =====================================================================
\* Claims
\* =====================================================================

\* C1: for every SKU, in every committed state reached by interleaved
\* reserve_stock (with partial failures), confirm_reservation and
\* release_reservation (cancelled or expired): stock >= reserved >= 0 and
\* available = stock - reserved >= 0.
C1_StockInvariant ==
    \A s \in Skus :
        LET row == inventory[s]
        IN  /\ stock(row) >= row.reserved_quantity
            /\ row.reserved_quantity >= 0
            /\ row.available_quantity = stock(row) - row.reserved_quantity
            /\ row.available_quantity >= 0

\* C1 witness: stock is committed as reserved, another call is rolling back
\* after a partial failure, and a release with reason expired has run.
C1_Witness ==
    /\ \E s \in Skus : inventory[s].reserved_quantity > 0
    /\ \E c \in Calls : /\ rs[c].pc = "rollback"
                         /\ rs[c].reservations # <<>>
                         /\ rs[c].failed_items # <<>>
    /\ svc_last[1] = "expired"

RECURSIVE SumQty(_, _)
SumQty(f, S) ==
    IF S = {} THEN 0
    ELSE LET x == CHOOSE y \in S : TRUE IN f[x] + SumQty(f, S \ {x})

\* The quantity the reserve endpoint has granted (answered 200) for a product.
GrantedTotal(p) ==
    SumQty([r \in Reqs |-> ep[r].quantity],
           {r \in Reqs : ep[r].status = 200 /\ ep[r].product_id = p})

\* C2: reservations of one SKU through the reserve endpoint are serialized:
\* the total quantity reserved by the requests that succeed never exceeds
\* the stock of the product.
C2_EndpointSerialized ==
    \A p \in Skus : GrantedTotal(p) <= products[p].stock_quantity

\* The units of SKU s in the line items of an order.
RECURSIVE ItemsQty(_, _)
ItemsQty(items, s) ==
    IF items = <<>> THEN 0
    ELSE (IF Head(items).sku_id = s THEN Head(items).quantity ELSE 0)
         + ItemsQty(Tail(items), s)

\* Inventory units announced as reserved for SKU s by the inventory.reserved
\* events of a topic.
RECURSIVE AnnouncedReserved(_, _)
AnnouncedReserved(topic, s) ==
    IF topic = <<>> THEN 0
    ELSE (IF Head(topic).event_type = "inventory.reserved"
          THEN ItemsQty(Head(topic).items, s) ELSE 0)
         + AnnouncedReserved(Tail(topic), s)

\* C3: the inventory service emits inventory.reserved for an order only
\* after every line item of the order has been reserved: the units the
\* emitted inventory.reserved events announce for a SKU are units that a
\* reserve has put into that SKU's reserved quantity.
C3_ReservedOnlyAfterReserve ==
    \A s \in Skus :
        AnnouncedReserved(inventory_topic, s)
            <= inventory[s].reserved_quantity + products[s].reserved_quantity

\* The effects of the handler, per event_id, summed over a set of event ids.
RECURSIVE SumEffects(_)
SumEffects(ids) ==
    IF ids = {} THEN 0
    ELSE LET e == CHOOSE x \in ids : TRUE
         IN  effects[e] + SumEffects(ids \ {e})

\* C4: for every (consumer group, event_id), the side effect of the handler
\* registered for the event happens at most once, whatever the consumer
\* goes through: redelivery, a crash between the handler and the
\* idempotency mark, another member taking over.  Stated here for the
\* executions in which no handler attempt raises.
C4_EffectAtMostOnce ==
    cfaults.handler = MaxHandlerFaults => \A e \in DOMAIN effects : effects[e] <= 1

\* The envelopes on the bus that were published for outbox row r.
EnvelopesOf(r) == {k \in DOMAIN bus : bus[k].correlation_id = outbox[r].id}

\* C5: an outbox row is Published only if the bus accepted its event: the
\* target topic holds an envelope of every Published row.
C5_PublishedOnlyAfterAck ==
    \A r \in DOMAIN outbox : outbox[r].status = "published" => EnvelopesOf(r) # {}

\* The event of order o is on the "orders" topic or recorded in the outbox.
EventOut(o, event_type) ==
    \/ \E k \in DOMAIN orders_topic :
          orders_topic[k].event_type = event_type /\ orders_topic[k].order_id = o
    \/ \E r \in DOMAIN outbox :
          /\ outbox[r].event_type = event_type
          /\ outbox[r].partition_key = order_key(o)
          /\ outbox[r].status \in {"pending", "published"}

\* C6: an order change and its event are atomic: once create_order or
\* cancel_order has committed the order change and is over (answered, or
\* dead with its process), the order.created / order.cancelled event is on
\* the bus or a Pending outbox row.
C6_WriteAndEventAtomic ==
    \A o \in OrderIds :
        /\ oreq[o].create \in {"201", "500", "killed"} => EventOut(o, "order.created")
        /\ oreq[o].cancel \in {"200", "500", "killed"} => EventOut(o, "order.cancelled")

\* C7: with a bus that acknowledges and a publisher that keeps running,
\* every Pending outbox row eventually is Published or Failed.
C7_PendingEventuallySettled ==
    \A r \in RowSlots :
        (r \in DOMAIN outbox /\ outbox[r].status = "pending")
            ~> (r \in DOMAIN outbox /\ outbox[r].status \in {"published", "failed"})

C7_Witness ==
    /\ Len(outbox) = 2
    /\ outbox[1].status = "failed"
    /\ outbox[2].status = "published"
    /\ faults.pub_crash = 0

\* C8: of two outbox rows with the same partition key, the one created
\* earlier reaches the bus before the one created later: an envelope of the
\* later row on the bus has an envelope of the earlier row before it.
C8_PerKeyOrder ==
    \A r1 \in DOMAIN outbox, r2 \in DOMAIN outbox :
        (r1 < r2 /\ outbox[r1].partition_key = outbox[r2].partition_key)
            => \A k2 \in EnvelopesOf(r2) : \E k1 \in EnvelopesOf(r1) : k1 < k2

\* C9: every envelope on the bus for an outbox row has the row's id as its
\* event_id.
C9_EventIdIsRowId ==
    \A r \in DOMAIN outbox : \A k \in EnvelopesOf(r) : bus[k].event_id = outbox[r].id

\* How often the handler took effect for the event of outbox row r.
EffectsOfRow(r) ==
    SumEffects({bus[k].event_id : k \in EnvelopesOf(r)} \cap DOMAIN effects)

\* C10: when the outbox publisher stops after the business commit and is
\* restarted, the consumer's handler takes effect at most once for the row
\* (no handler attempt fails and no consumer crashes; only the publisher
\* does).
C10_OncePerRowAfterPublisherCrash ==
    (cfaults.handler = MaxHandlerFaults /\ cfaults.crash = MaxConsCrashes)
        => \A r \in DOMAIN outbox : EffectsOfRow(r) <= 1

\* C16: reserve_stock calls carrying the same idempotency key (and the same
\* items) reserve once: no two calls with one key and the same items both
\* get their reservation committed.
C16_SameKeyReservesOnce ==
    \A c \in Calls, d \in Calls :
        (c # d /\ rs[c].pc = "storeidem" /\ rs[d].pc = "storeidem"
              /\ rs[c].items = rs[d].items)
            => rs[c].idempotency_key # rs[d].idempotency_key

\* The call c processes an item in this step, its UPDATE being executed
\* (the transaction is not aborted, the row not held by another one).
ReserveStep(c) ==
    /\ rs[c].pc = "loop"
    /\ rs'[c].pc # "done"
    /\ rs'[c].i = rs[c].i + 1
    /\ ~rs'[c].aborted

\* C17: the atomic reserve of one item (sku, qty) succeeds exactly when
\* available >= qty at the moment of the update, and then adds qty to
\* reserved and leaves stock unchanged; otherwise it fails and leaves the
\* row unchanged.
C17_AtomicReserve ==
    [][\A c \in Calls :
         ReserveStep(c) =>
           LET item == rs[c].items[rs[c].i]
               before == Visible(c, item.sku_id)
               after == IF item.sku_id \in rs'[c].locks THEN rs'[c].tx[item.sku_id]
                        ELSE inventory'[item.sku_id]
               success == Len(rs'[c].reservations) = Len(rs[c].reservations) + 1
           IN  /\ success <=> before.available_quantity >= item.quantity
               /\ success =>
                     /\ after.reserved_quantity = before.reserved_quantity + item.quantity
                     /\ stock(after) = stock(before)
               /\ ~success => after = before /\ rs'[c].failed_items # rs[c].failed_items
      ]_vars

C17_Witness ==
    \E c \in Calls :
        /\ rs[c].reservations # <<>>
        /\ rs[c].failed_items # <<>>
        /\ ~rs[c].aborted
        /\ rs[c].pc = "rollback"

\* The stored reservation with this id, if any.
ReservationsWithId(store, id) == {r \in store : r.reservation_id = id}

RECURSIVE SumQuantity(_)
SumQuantity(reservations) ==
    IF reservations = {} THEN 0
    ELSE LET r == CHOOSE x \in reservations : TRUE
         IN  r.quantity + SumQuantity(reservations \ {r})

PendingUnits(rid, s) ==
    SumQuantity({r \in redis_reservations :
                   r.order_id = rid /\ r.sku_id = s /\ r.status = "pending"})

\* A confirm / release / expire call on group rid, whose reserve_stock has
\* committed, returns in this step.
OperationOn(rid) ==
    /\ svc_last' # svc_last
    /\ svc_last'[3] = rid
    /\ rs[rid].pc = "done"
    /\ rs[rid].result = "success"

\* C19: of confirm, release and expire applied to the same Pending
\* reservation exactly one takes effect: the call that finds it Pending
\* takes the reservation's quantity off the SKU's reserved count and
\* leaves the reservation in a terminal status; none does so twice.
C19_ExactlyOneTakesEffect ==
    [][\A rid \in Calls :
         OperationOn(rid) =>
           /\ \A s \in Skus :
                 inventory'[s].reserved_quantity
                    = inventory[s].reserved_quantity - PendingUnits(rid, s)
           /\ \A r \in redis_reservations' : r.order_id = rid => r.status # "pending"
      ]_vars

\* C20: confirm_reservation on a group with Pending reservations takes
\* each quantity q off reserved and adds it to sold (available unchanged),
\* sets the reservations Confirmed and returns True.
C20_ConfirmMovesReservedToSold ==
    [][\A rid \in Calls :
         (OperationOn(rid) /\ svc_last'[1] = "confirm"
            /\ \E s \in Skus : PendingUnits(rid, s) > 0)
           => /\ svc_last'[2] = TRUE
              /\ \A s \in Skus :
                    /\ inventory'[s].reserved_quantity
                          = inventory[s].reserved_quantity - PendingUnits(rid, s)
                    /\ inventory'[s].sold_quantity
                          = inventory[s].sold_quantity + PendingUnits(rid, s)
                    /\ inventory'[s].available_quantity = inventory[s].available_quantity
              /\ \A r \in redis_reservations' :
                    r.order_id = rid => r.status = "confirmed"
      ]_vars

\* The events of one type a topic holds for order o.
Emitted(topic, event_type, o) ==
    Cardinality({k \in DOMAIN topic :
                    topic[k].event_type = event_type /\ topic[k].order_id = o})

\* C11: no order is Confirmed and no order.confirmed is emitted unless a
\* payment of the order was completed and the reservation of every line
\* item is Confirmed, that is, the units of the order have moved from the
\* reserved quantity to the sold quantity of their SKU.
C11_ConfirmedOnlyAfterPaymentAndStock ==
    \A o \in OrderIds :
        (orders[o].status = "confirmed" \/ Emitted(orders_topic, "order.confirmed", o) > 0)
            => /\ charges[o] > 0
               /\ \A s \in Skus :
                     ItemsQty(orders[o].items, s) <= inventory[s].sold_quantity

\* C12: with consumers that keep running, every Pending order eventually
\* leaves Pending (Confirmed, Failed or Cancelled).
C12_PendingEventuallyLeaves ==
    \A o \in OrderIds :
        (orders[o].status = "pending") ~> (orders[o].status \in {"confirmed", "failed", "cancelled"})

\* C13: an order in a terminal status (Delivered, Cancelled, Failed) never
\* changes, and no payment.initiated and no order.confirmed is emitted for
\* it.
C13_TerminalOrdersAreFinal ==
    [][\A o \in OrderIds :
          orders[o].status \in {"delivered", "cancelled", "failed"}
              => /\ orders'[o] = orders[o]
                 /\ Emitted(payments_topic', "payment.initiated", o)
                       = Emitted(payments_topic, "payment.initiated", o)
                 /\ Emitted(orders_topic', "order.confirmed", o)
                       = Emitted(orders_topic, "order.confirmed", o)]_vars

\* The order service has processed a payment.failed event of order o.
PaymentFailedProcessed(o) ==
    \E k \in 1..positions.order_payments :
        payments_topic[k].event_type = "payment.failed" /\ payments_topic[k].order_id = o

\* C14: after payment.failed has been processed for an order, the order
\* eventually is Failed and none of its units is left in a reserved
\* quantity.
C14_PaymentFailedCompensates ==
    \A o \in OrderIds :
        PaymentFailedProcessed(o)
            ~> /\ orders[o].status = "failed"
               /\ \A s \in Skus : inventory[s].reserved_quantity = 0
                                    /\ products[s].reserved_quantity = 0

\* C15: re-delivery changes nothing: however often order.created and
\* inventory.reserved are delivered, an order gets at most as many
\* inventory.reserved events, payment.initiated events and charges as it
\* has order.created events (one).
C15_RedeliveryHasNoEffect ==
    \A o \in OrderIds :
        /\ Emitted(inventory_topic, "inventory.reserved", o)
              <= Emitted(orders_topic, "order.created", o)
        /\ Emitted(payments_topic, "payment.initiated", o)
              <= Emitted(orders_topic, "order.created", o)
        /\ charges[o] <= Emitted(orders_topic, "order.created", o)

\* C21: release_reservation on a group takes, for each Pending reservation,
\* its quantity off reserved and gives it back to available (sold, hence
\* stock, unchanged) and sets the reservation Released; reservations that
\* are not Pending are left as they are.
C21_ReleaseRestoresAvailable ==
    [][\A rid \in Calls :
         (OperationOn(rid) /\ svc_last'[1] = "cancelled")
           => /\ \A s \in Skus :
                    /\ inventory'[s].reserved_quantity
                          = inventory[s].reserved_quantity - PendingUnits(rid, s)
                    /\ inventory'[s].available_quantity
                          = inventory[s].available_quantity + PendingUnits(rid, s)
                    /\ inventory'[s].sold_quantity = inventory[s].sold_quantity
              /\ \A r \in redis_reservations :
                    r.order_id = rid =>
                       IF r.status = "pending"
                       THEN [r EXCEPT !.status = "released"] \in redis_reservations'
                       ELSE r \in redis_reservations'
      ]_vars

\* No reserve_stock call is between its first statement and its return.
Quiescent == \A c \in Calls : rs[c].pc \in {"idle", "done"}

\* C23: in every committed state the reserved count of a SKU is at least
\* the sum of the quantities of the SKU's Pending reservations.
C23_ReservedCoversPending ==
    Quiescent =>
        \A s \in Skus :
            inventory[s].reserved_quantity
                >= SumQuantity({r \in redis_reservations :
                                  r.sku_id = s /\ r.status = "pending"})

\* C22: with the expiry worker running, every reservation that is still
\* Pending when its expires_at has passed is eventually Expired and its
\* quantity is off the reserved count of its SKU.
C22_OverdueEventuallyExpired ==
    \A c \in ExpiryCalls, s \in Skus, q \in 1..MaxQty :
        (StockReservation(c, s, q) \in overdue /\ rs[c].result = "success")
            ~> /\ [StockReservation(c, s, q) EXCEPT !.status = "expired"]
                      \in redis_reservations \cup overdue
               /\ inventory[s].reserved_quantity = 0

\* C24: no message whose handler failed on every attempt is dropped
\* without a record on the dead-letter topic: once the consumer has given
\* up on an event, the dead-letter topic holds its envelope.
C24_FailedMessageInDeadLetter ==
    \A e \in dlq_log :
        \E k \in DOMAIN dlq : dlq[k].original_event.event_id = e

\* C25: ReliableKafkaProducer.publish sends at most max_retries + 1 times,
\* and an event it is done with is on its topic (an attempt was
\* acknowledged, True) or, when every attempt failed (False), in a record
\* of the dead-letter topic that holds the original topic and envelope.
C25_GivenUpEventInDeadLetter ==
    /\ \A p \in Publishers : pub[p].attempt <= producer_max_retries
    /\ \A r \in DOMAIN outbox :
          outbox[r].status = "published"
             => \/ EnvelopesOf(r) # {}
                \/ \E k \in DOMAIN dlq :
                      /\ dlq[k].original_topic = "orders"
                      /\ dlq[k].original_event.correlation_id = outbox[r].id

\* C26: cancel_order succeeds, that is the status becomes Cancelled and an
\* order.cancelled event is emitted, exactly when the order exists and is
\* Pending or Confirmed; otherwise it answers 404 (unknown order) or 400,
\* leaves the order unchanged and emits no event.
C26_CancelOnlyPendingOrConfirmed ==
    [][\A o \in OrderIds :
         /\ (oreq[o].cancel \in Answered /\ oreq'[o].cancel # oreq[o].cancel)
              => IF orders[o].status \in {"pending", "confirmed"}
                 THEN orders'[o].status = "cancelled" /\ oreq'[o].cancel = "committed"
                 ELSE /\ oreq'[o].cancel = IF orders[o].status = "none" THEN "404" ELSE "400"
                      /\ orders' = orders
                      /\ orders_topic' = orders_topic
         /\ (oreq[o].cancel = "committed" /\ oreq'[o].cancel # "committed")
              => /\ oreq'[o].cancel = "200"
                 /\ orders_topic' = Append(orders_topic, order_cancelled_event(o))
      ]_vars

\* The status changes a Payment may make.
LegalPaymentChange ==
    {<<"pending", "processing">>, <<"processing", "completed">>,
     <<"processing", "failed">>, <<"completed", "refunded">>}

\* C27: every status change of a Payment follows Pending -> Processing ->
\* Completed | Failed or Completed -> Refunded; a refund of a payment that
\* is not Completed is answered 400 and changes nothing; a refund the
\* gateway declines leaves the payment Completed; and in every committed
\* state transaction_id is set exactly when the status is Completed or
\* Refunded.
C27_PaymentStateMachine ==
    [][/\ \A id \in DOMAIN payments :
            \/ payments'[id].status = payments[id].status
            \/ <<payments[id].status, payments'[id].status>> \in LegalPaymentChange
       /\ \A id \in DOMAIN payments' :
            payments'[id].transaction_id # 0
               <=> payments'[id].status \in {"completed", "refunded"}
       /\ (rreq.pc \in RefundAnswered /\ rreq' # rreq
              /\ rreq'.payment_id \in DOMAIN payments
              /\ payments[rreq'.payment_id].status # "completed")
            => /\ rreq'.pc = "400"
               /\ payments' = payments
               /\ payments_topic' = payments_topic
       /\ (rreq.pc = "gateway" /\ rreq'.pc = "500")
            => /\ payments' = payments
               /\ payments[rreq.payment_id].status = "completed"
      ]_vars

C27_Witness ==
    /\ rreq.pc = "400"
    /\ \E id \in DOMAIN payments : payments[id].status = "refunded"
    /\ \E id \in DOMAIN payments :
          payments[id].status = "failed" /\ rreq.payment_id = id

\* C28: at most one payment per order is ever Completed, and at most one
\* payment.completed event (one successful gateway charge) exists per
\* order, however many POST /payments requests are made for it.
C28_OneCompletedPaymentPerOrder ==
    \A o \in OrderIds :
        /\ Cardinality({id \in DOMAIN payments :
                           payments[id].order_id = o
                           /\ payments[id].status = "completed"}) <= 1
        /\ Emitted(payments_topic, "payment.completed", o) <= 1
        /\ charges[o] <= 1

\* C29: a payment.completed (payment.failed) event exists only for a
\* Payment row whose committed status is Completed, or Refunded since
\* (Failed), once no request is between its publish and its commit.
C29_TerminalEventOnlyWithStoredState ==
    (\A q \in PayReqs : preq[q].pc # "commit") =>
    \A k \in DOMAIN payments_topic :
        LET event == payments_topic[k]
        IN  /\ event.event_type = "payment.completed"
                 => \E id \in DOMAIN payments :
                       /\ payments[id].order_id = event.order_id
                       /\ payments[id].status \in {"completed", "refunded"}
            /\ event.event_type = "payment.failed"
                 => \E id \in DOMAIN payments :
                       /\ payments[id].order_id = event.order_id
                       /\ payments[id].status = "failed"

\* C30: an admin stock adjustment answered 400 or 404 leaves the products
\* unchanged, an adjustment that would take the stock below 0 or below the
\* reserved quantity is not accepted, and after every accepted adjustment
\* stock >= reserved >= 0.
C30_AdjustmentKeepsStockAboveReserved ==
    [][(admin.pc # "done" /\ admin'.pc = "done") =>
         /\ admin'.status \in {400, 404} => products' = products
         /\ admin'.status = 404 <=> admin.product_id \notin Skus
         /\ admin'.status = 200 =>
               /\ products'[admin.product_id].stock_quantity
                     >= products'[admin.product_id].reserved_quantity
               /\ products'[admin.product_id].reserved_quantity >= 0
      ]_vars

\* C31: a reserve_stock call with a failed item is all-or-nothing: inside
\* its transaction every successful item reserve is reversed exactly once
\* (the rows it wrote are back at their committed values), and when it
\* returns success=False, with the failed items listed, the committed
\* counts of every SKU are what they were.
C31_FailedReserveChangesNothing ==
    [][\A c \in Calls :
         /\ rs'[c].pc = "dbrollback"
              => \A s \in rs'[c].locks : rs'[c].tx[s] = inventory'[s]
         /\ (rs[c].pc # "done" /\ rs'[c].pc = "done" /\ rs'[c].result = "failure")
              => /\ inventory' = inventory
                 /\ rs[c].failed_items # <<>>
         /\ (rs[c].failed_items # <<>> /\ rs[c].pc # "done" /\ rs'[c].pc = "done")
              => inventory' = inventory
      ]_vars

C31_Witness ==
    \E c \in Calls :
        /\ rs[c].pc = "dbrollback"
        /\ Len(rs[c].reservations) >= 1
        /\ rs[c].failed_items # <<>>
        /\ \E d \in Calls \ {c} : rs[d].pc = "done" /\ rs[d].result = "success"

\* C37: after reserve_stock has returned success=False no reservation
\* record created by that call is stored any more.
C37_FailedReserveLeavesNoRecord ==
    \A c \in Calls :
        (rs[c].pc = "done" /\ rs[c].result = "failure")
            => \A r \in redis_reservations : r.order_id # c

\* C33: when the publish of an outbox row fails (the loop of the batch
\* leaves the row and the bus did not take its envelope), a row selected
\* with retry_count below MAX_RETRIES gets retry_count + 1 and stays
\* pending, a row selected with retry_count >= MAX_RETRIES is set failed
\* with the error message; a row becomes failed only this way,
\* retry_count never decreases, and a row whose envelope the bus took is
\* not marked failed.
C33_FailedPublishCountsRetry ==
    [][/\ \A p \in Publishers :
            (pub[p].pc = "publish" /\ pub'[p] # IdlePub
               /\ (pub'[p].pc = "commit" \/ pub'[p].i # pub[p].i))
            => LET event == CurrentEvent(p)
                   row == pub'[p].tx[CurrentRow(p)]
               IN  IF bus' # bus
                   THEN row.status # "failed"
                   ELSE IF event.retry_count < MAX_RETRIES
                        THEN /\ row.retry_count = event.retry_count + 1
                             /\ row.status = "pending"
                        ELSE /\ row.status = "failed"
                             /\ row.error_message = TRUE
       /\ \A r \in 1..Len(outbox) :
             /\ outbox'[r].retry_count >= outbox[r].retry_count
             /\ (outbox[r].status # "failed" /\ outbox'[r].status = "failed")
                   => /\ outbox[r].retry_count >= MAX_RETRIES
                      /\ outbox'[r].error_message = TRUE
      ]_vars

\* C32: the offset of a message whose handling did not end in the
\* dead-letter log is committed only when its event_id is already marked
\* processed, and when the owner crashes between the mark and the commit
\* the member that resumes at the committed offset finds the event_id
\* marked, so the redelivered message is skipped and its handler is not
\* invoked again.
C32_MarkBeforeCommit ==
    [][/\ (cons.pc = "commit" /\ offsets' # offsets
             /\ Message.event_id \notin dlq_log)
          => is_processed(cons.member, Message.event_id)
       /\ (cons.pc = "commit" /\ cfaults'.crash < cfaults.crash
             /\ offsets < cons.position
             /\ is_processed(cons.member, Message.event_id))
          => IF use_redis THEN Message.event_id \in redis_processed'
             ELSE Message.event_id \in processed'[cons'.member]
      ]_vars

\* C35: within one delivery of a message with a registered handler the
\* handler is invoked at most max_retries + 1 times, it is not invoked
\* again once an invocation returned, and the sleep before retry number k
\* is retry_backoff_ms * 2^(k-1): the base before the first retry and twice
\* the previous sleep before every later one.
C35_RetriesBoundedAndDoubling ==
    [][/\ cons.pc = "process" => cons.attempt + 1 <= consumer_max_retries + 1
       /\ (cons'.pc = "process" /\ cons.pc # "process") => cons.pc = "fetch"
       /\ effects' # effects => cons.pc = "process"
       /\ (cons.pc = "process" /\ cons'.pc = "process" /\ cons'.attempt # cons.attempt)
          => LET k == cons'.attempt
             IN  /\ k = cons.attempt + 1
                 /\ cons'.wait_time = retry_backoff_ms * 2 ^ (k - 1)
                 /\ k = 1 => cons'.wait_time = retry_backoff_ms
                 /\ k > 1 => cons'.wait_time = 2 * cons.wait_time
      ]_vars

C35_Witness ==
    /\ cons.pc = "mark"
    /\ cons.attempt = consumer_max_retries
    /\ cons.wait_time = 4 * retry_backoff_ms
    /\ Message.event_id \in DOMAIN effects

\* C40: in an IdempotencyStore without a Redis client, an event id that
\* was marked processed stays processed whatever other ids are marked
\* afterwards: no mark_processed call takes an id out of the set.
C40_MarkedStaysProcessed ==
    [][\A member \in Members :
         (~use_redis /\ cfaults' = cfaults) => processed[member] \subseteq processed'[member]
      ]_vars

\* C36: the oversell-incident counter is incremented only for a stock
\* level that violates stock >= reserved >= 0 (available >= 0): every
\* recorded incident reports a negative available or reserved quantity, so
\* a request rejected for insufficient stock records none.
C36_IncidentOnlyOnViolation ==
    \A i \in 1..oversell_incidents_total :
        incidents[i].available_qty < 0 \/ incidents[i].reserved_qty < 0

\* C38: process_event loses no event: when the handler raised, the
\* event_id is not left recorded as processed, and a call is answered
\* "skipped" only for an event_id whose handler has returned before.
C38_NoEventLost ==
    [][\A c \in TrackerCalls :
         /\ (tcalls[c].pc = "handler" /\ tcalls'[c].status = "raised")
               => tcalls[c].event_id \notin idem_keys'
         /\ (tcalls[c].pc = "replied" /\ tcalls'[c].status = "skipped")
               => tcalls[c].event_id \in completed
      ]_vars

\* the calls whose SET NX was answered OK and that have not returned yet
AnsweringNew(event_id) ==
    {c \in TrackerCalls : /\ tcalls[c].pc = "replied"
                          /\ tcalls[c].event_id = event_id
                          /\ tcalls[c].reply = "OK"}

RECURSIVE SumDuplicates(_)
SumDuplicates(events) ==
    IF events = {} THEN 0
    ELSE LET e == CHOOSE x \in events : TRUE
         IN  answers[e].duplicate + SumDuplicates(events \ {e})

\* C39: is_duplicate is an atomic test-and-set: of the sequential and
\* concurrent calls made for one event_id while its key lives exactly one
\* is answered False (the one that created the key) and every other True,
\* and the duplicate counter is the number of calls answered True.
C39_ExactlyOneNew ==
    /\ \A e \in TrackedEvents :
          /\ answers[e].new + Cardinality(AnsweringNew(e))
                = (IF e \in idem_keys THEN 1 ELSE 0)
          /\ (\E c \in TrackerCalls : tcalls[c].pc # "idle" /\ tcalls[c].event_id = e)
                => e \in idem_keys
    /\ duplicates_total = SumDuplicates(TrackedEvents)

C39_Witness ==
    /\ answers["e1"].new = 1
    /\ answers["e1"].duplicate = 2
    /\ duplicates_total = 2
    /\ \E c \in TrackerCalls : tcalls[c].pc = "handler" /\ tcalls[c].event_id = "e1"

\* the committed outbox rows a record on the bus or the dead-letter topic
\* was built from
RowsOf(envelope) ==
    {r \in 1..Len(outbox) : outbox[r].id = envelope.correlation_id}

\* C34: the outbox statuses published and failed are final: a row with
\* one of them committed is in no publisher's batch, is not changed any
\* more (so never pending again) and no envelope is built from it for the
\* bus or the dead-letter topic, with publisher restarts and two publisher
\* instances; and the batches two publishers hold at the same time share
\* no row.
C34_FinalStatusesAndDisjointBatches ==
    [][/\ \A r \in 1..Len(outbox) :
            outbox[r].status \in {"published", "failed"}
               => /\ outbox'[r] = outbox[r]
                  /\ \A p \in Publishers : r \notin Range(pub'[p].batch)
       /\ bus' # bus
            => \A r \in RowsOf(bus'[Len(bus')]) : outbox[r].status = "pending"
       /\ dlq' # dlq
            => \A r \in RowsOf(dlq'[Len(dlq')].original_event) : outbox[r].status = "pending"
       /\ \A p \in Publishers, q \in Publishers :
            p # q => Range(pub'[p].batch) \cap Range(pub'[q].batch) = {}
      ]_vars

C34_Witness ==
    /\ Len(outbox) = 2
    /\ outbox[1].status = "failed"
    /\ faults.pub_crash < MaxPubCrashes
    /\ \E p \in Publishers :
          /\ pub[p].pc = "publish"
          /\ pub[p].batch = <<2>>
          /\ pub[p].tx[1].status = "pending"
          /\ pub[p].tx[1].retry_count < outbox[1].retry_count

====
